---- MODULE Spec2Model ----
(***************************************************************************)
(* Model of the Hearth Writer resource orchestrator                        *)
(* (core/resource_manager.py), the inference worker it supervises          *)
(* (core/inference_process.py) and the licence lookup it consumes          *)
(* (core/license_validator.py).                                            *)
(*                                                                         *)
(* The slot table is a Python dict: it is modelled as the sequence of its  *)
(* values in insertion order, which is the order every loop of the code    *)
(* iterates in.  time.time() is the variable now, advanced by Tick.        *)
(***************************************************************************)
EXTENDS Integers, Sequences, FiniteSets, TLC

VARIABLES
    key,            \* os.environ["HEARTH_LICENSE_KEY"]
    maxConcurrent,  \* ResourceOrchestrator.MAX_CONCURRENT_MODELS
    slots,          \* _model_slots, values in insertion order
    locks,          \* keys of _active_locks
    now,            \* time.time()
    worker,         \* self.worker is not None
    wstate,         \* the worker process: none, get (blocked on the task queue), busy,
                    \* exiting (run() has left its loop), exited
    wtask,          \* the task the worker process is executing
    wmodel,         \* InferenceWorker._current_model
    orphan,         \* a started worker process that self.worker no longer refers to
    taskq,          \* task_queue
    resultq,        \* result_queue
    nextTask,       \* number of the next generate task
    pc,             \* position of each connection handler in generate_text
    cpc,            \* position of the caller of collapse_to_zero
    last,           \* the call that returned last, and what it returned
    rq,             \* position of each connection handler in request_model / release_lock
    snapshot,       \* the dictionary the last get_status call returned
    cached_tier,    \* LicenseValidator._cached_tier
    key_hash,       \* LicenseValidator._key_hash
    decision,       \* the last feature checked and what each module answered
    bprompts,       \* _handle_batch_generate: task['prompts']
    bloaded,        \* _handle_batch_generate: the model of the task is loaded
    bresults,       \* _handle_batch_generate: results
    bfailed,        \* the branches whose inference call has raised
    bout,           \* what run() has put on the result queue for the batch task
    vfiller,        \* number of .wav files in the cache directory left by earlier
                    \* runs, all of them older than the files of this run
    vcache,         \* cache keys of the .wav files of this run, oldest access first
    vret,           \* what the last synthesize call did
    served,         \* number of tasks one worker instance has served
    loadLog,        \* the model paths that instance has loaded since it started
                    \* or was last told to reload, in order
    ptask,          \* the generate task dictionary generate_text has built
    pprompt,        \* the prompt _build_prompt has composed for it, part by part
    orchs,          \* the ResourceOrchestrator objects constructed so far: the
                    \* limit each one took from the key at construction
    app_orchestrator,     \* app._orchestrator: 0 for None, else an index of orchs
    module_orchestrator,  \* core.resource_manager.orchestrator: 0 while the
                          \* module is not imported
    rag_orchestrator,     \* the orchestrator rag_engine holds, 0 while
                          \* core.context_engine is not imported
    gpc,            \* each connection's thread in get_orchestrator, and the
                    \* object its last call returned
    current_mode,             \* the locals of one hearth_stream session
    shadow_nodes_enabled,
    visual_tracking_enabled,
    sreply,         \* the last message the session received and what the
                    \* handler did with it
    holds,          \* the model each connection holds a handle of ("" for none)
    iter            \* each connection's thread in a loop over _model_slots

callVars == <<rq, snapshot>>
validatorVars == <<cached_tier, key_hash, decision>>
batchVars == <<bprompts, bloaded, bresults, bfailed, bout>>
voiceVars == <<vfiller, vcache, vret>>
loadVars == <<served, loadLog>>
promptVars == <<ptask, pprompt>>
singletonVars == <<orchs, app_orchestrator, module_orchestrator, rag_orchestrator, gpc>>
sessionVars == <<current_mode, shadow_nodes_enabled, visual_tracking_enabled, sreply>>
appVars == <<singletonVars, sessionVars>>
handleVars == <<holds, iter>>
restVars == <<loadVars, promptVars, appVars, handleVars>>

\* the state of the modules beside the orchestrator and its worker
moduleVars == <<validatorVars, batchVars, voiceVars, restVars>>

\* the state an action of the orchestrator or of the worker leaves alone
otherVars == <<callVars, moduleVars>>

vars == <<key, maxConcurrent, slots, locks, now,
          worker, wstate, wtask, wmodel, orphan, taskq, resultq, nextTask,
          pc, cpc, last, otherVars>>

orchVars == <<maxConcurrent, slots, locks>>
workerVars == <<worker, wstate, wtask, wmodel, orphan, taskq, resultq, nextTask>>

(***************************************************************************)
(* Bounds of the model                                                     *)
(***************************************************************************)
MaxTime == 301
MaxTasks == 2
MaxQueue == 2
MaxPrompts == 3
MaxServed == 6
MaxWords == 2

(***************************************************************************)
(* Program constants                                                       *)
(***************************************************************************)
IDLE_TIMEOUT_SECONDS == 300
RONIN_LIMIT == 1
PRO_LIMIT == 3
DEFAULT_MEMORY == 1024
MAX_CACHE_SIZE_MB == 500
MAX_CACHE_FILES == 1000
EVICTION_BUFFER == 100

MODEL_MEMORY ==
    [n \in {"mistral-7b-quantized", "all-MiniLM-L6-v2", "coqui-tts"} |->
        CASE n = "mistral-7b-quantized" -> 4096
          [] n = "all-MiniLM-L6-v2" -> 256
          [] n = "coqui-tts" -> 512]

\* model names callers ask for: the three known ones and one without estimate
Names == {"mistral-7b-quantized", "all-MiniLM-L6-v2", "coqui-tts", "custom-lora"}

\* the two models the retrieval pipeline asks for (core/context_engine.py)
CoreNames == {"mistral-7b-quantized", "all-MiniLM-L6-v2"}

\* connection handlers that call generate_text: the websocket connections
\* the server has open, and the one among them that is served alone
Connections == {"h1", "h2"}
Handlers == {"h1"}

\* time.time() moves by one of these steps between two calls: half-timeout
\* steps for callers that hold one model at a time, whole-timeout steps otherwise
TickDeltas == {IDLE_TIMEOUT_SECONDS \div 2, IDLE_TIMEOUT_SECONDS \div 2 + 1}
CoarseDeltas == {IDLE_TIMEOUT_SECONDS, IDLE_TIMEOUT_SECONDS + 1}

\* for the orchestrator together with its worker: more than the idle
\* timeout passes between two calls, or no time at all
PastTimeout == {IDLE_TIMEOUT_SECONDS + 1}

(***************************************************************************)
(* Licence validator (core/license_validator.py)                           *)
(* A key is the sequence of its "_"-separated segments.                    *)
(***************************************************************************)
Keys == { <<>>,
          <<"HRTH", "ARCHITECT", "k">>,
          <<"HRTH", "SHOWRUNNER", "k">>,
          <<"HRTH", "RONIN", "k">> }

\* the keys the orchestrator is run under: one free, one paid
OrchKeys == { <<>>, <<"HRTH", "ARCHITECT", "k">> }

StartsWith(k, p) == Len(k) >= Len(p) /\ SubSeq(k, 1, Len(p)) = p

validate_key_format(k) ==
    IF k = <<>> THEN "ronin"
    ELSE IF StartsWith(k, <<"HRTH", "ARCHITECT">>) THEN "architect"
    ELSE IF StartsWith(k, <<"HRTH", "SHOWRUNNER">>) THEN "showrunner"
    ELSE "ronin"

get_tier(k) == validate_key_format(k)

\* hashlib.sha256(key.encode()).hexdigest()[:16] of the keys of Keys, written
\* "", "HRTH_ARCHITECT_k", "HRTH_SHOWRUNNER_k", "HRTH_RONIN_k"
key_digest(k) ==
    CASE k = <<>> -> "e3b0c44298fc1c14"
      [] k = <<"HRTH", "ARCHITECT", "k">> -> "7c6949d110dabd96"
      [] k = <<"HRTH", "SHOWRUNNER", "k">> -> "83b8f2ee698932a7"
      [] k = <<"HRTH", "RONIN", "k">> -> "355d6005ed98af09"

\* variant: a cached tier is returned whatever the key
cache_hit_any_key(k, ct, kh) == ct # "none"

\* line 125: the cached tier is returned when the key's digest is the cached one
cache_hit(k, ct, kh) == kh = key_digest(k) /\ ct # "none"

\* LicenseValidator.get_tier: the tier a call returns and caches
tier_resolved(k, ct, kh) ==
    IF cache_hit(k, ct, kh) THEN ct ELSE validate_key_format(k)

is_pro(k) == get_tier(k) \in {"architect", "showrunner"}

FEATURE_TIERS ==
    [f \in {"shadow_nodes", "visual_tracking", "multi_lora",
            "timeline_injection", "comic_mode", "collaboration",
            "team_sync", "white_labeling", "custom_grammars",
            "prose_mode", "screenplay_mode", "voice_engine", "pure_mode"} |->
        CASE f \in {"shadow_nodes", "visual_tracking", "multi_lora",
                    "timeline_injection", "comic_mode"}
                 -> {"architect", "showrunner"}
          [] f \in {"collaboration", "team_sync", "white_labeling",
                    "custom_grammars"}
                 -> {"showrunner"}
          [] OTHER -> {"ronin", "architect", "showrunner"}]

can_access_feature(k, f) ==
    IF f \notin DOMAIN FEATURE_TIERS THEN TRUE
    ELSE get_tier(k) \in FEATURE_TIERS[f]

\* LicenseValidator.can_access for the tier get_tier has returned
can_access(t, f) ==
    IF f \notin DOMAIN FEATURE_TIERS THEN TRUE ELSE t \in FEATURE_TIERS[f]

\* app.get_license_tier
app_get_license_tier(k) ==
    IF k = <<>> THEN "ronin"
    ELSE IF StartsWith(k, <<"HRTH", "SHOWRUNNER">>) THEN "showrunner"
    ELSE IF StartsWith(k, <<"HRTH", "ARCHITECT">>) THEN "architect"
    ELSE "ronin"

\* app.check_feature_access: FEATURE_REQUIREMENTS and the decision
FEATURE_REQUIREMENTS ==
    [f \in {"shadow_nodes", "visual_tracking", "multi_lora", "comic_mode",
            "collaboration", "team_sync"} |->
        IF f \in {"collaboration", "team_sync"}
        THEN {"showrunner"}
        ELSE {"architect", "showrunner"}]

app_check_feature_access(k, f) ==
    IF f \notin DOMAIN FEATURE_REQUIREMENTS THEN TRUE
    ELSE app_get_license_tier(k) \in FEATURE_REQUIREMENTS[f]

\* context_engine.get_license_tier
engine_get_license_tier(k) ==
    IF k = <<>> THEN "ronin"
    ELSE IF StartsWith(k, <<"HRTH", "ARCHITECT">>) THEN "architect"
    ELSE IF StartsWith(k, <<"HRTH", "SHOWRUNNER">>) THEN "showrunner"
    ELSE "ronin"

\* context_engine.check_pro_feature
check_pro_feature(k, f) ==
    IF f \in {"shadow_nodes", "visual_tracking", "multi_lora"}
    THEN engine_get_license_tier(k) \in {"architect", "showrunner"}
    ELSE IF f = "collaboration"
    THEN engine_get_license_tier(k) = "showrunner"
    ELSE TRUE

\* the feature names the modules are asked about: those of FEATURE_TIERS and
\* one that no table lists
Features == DOMAIN FEATURE_TIERS \cup {"export_pdf"}

\* ResourceOrchestrator._update_limits
update_limits(k) == IF is_pro(k) THEN PRO_LIMIT ELSE RONIN_LIMIT

(***************************************************************************)
(* Slot table helpers                                                      *)
(***************************************************************************)
SlotNames(s) == { s[i].name : i \in 1..Len(s) }

IndexOf(s, n) == CHOOSE i \in 1..Len(s) : s[i].name = n

SlotOf(s, n) == s[IndexOf(s, n)]

NonCold(s) == { i \in 1..Len(s) : s[i].state # "cold" }

\* variant: slots that are kept warm are not counted
current_models_unpinned(s) ==
    Cardinality({ i \in NonCold(s) : ~s[i].keep_warm })

\* line 113: the number of slots that are not Cold
current_models(s) == Cardinality(NonCold(s))

memory_mb(n) == IF n \in DOMAIN MODEL_MEMORY THEN MODEL_MEMORY[n] ELSE DEFAULT_MEMORY

ModelSlot(n, st, t, kw) ==
    [name |-> n, state |-> st, last_used |-> t, keep_warm |-> kw,
     memory_mb |-> memory_mb(n)]

\* the loop of _unload_oldest_model: index of the chosen slot, 0 for None
RECURSIVE OldestScan(_, _, _, _)
OldestScan(s, lk, i, best) ==
    IF i > Len(s) THEN best
    ELSE IF s[i].state # "cold" /\ s[i].name \notin lk
            /\ (best = 0 \/ s[i].last_used < s[best].last_used)
         THEN OldestScan(s, lk, i + 1, i)
         ELSE OldestScan(s, lk, i + 1, best)

\* variant: the scan does not skip the names in _active_locks
oldest_slot_ignoring_locks(s, lk) == OldestScan(s, {}, 1, 0)

oldest_slot(s, lk) == OldestScan(s, lk, 1, 0)

\* variant: with no unlocked candidate the first resident slot is unloaded
unload_oldest_or_first(s, lk) ==
    LET v == IF oldest_slot(s, lk) # 0 THEN oldest_slot(s, lk)
             ELSE oldest_slot(s, {})
    IN  IF v = 0 THEN s ELSE [s EXCEPT ![v].state = "cold"]

unload_oldest_model(s, lk) ==
    LET v == oldest_slot(s, lk)
    IN  IF v = 0 THEN s ELSE [s EXCEPT ![v].state = "cold"]

\* variant: a slot counts as idle as soon as the timeout is reached
idle_expired_at_timeout(idle_time) == idle_time >= IDLE_TIMEOUT_SECONDS

\* line 185: idle_time > self.IDLE_TIMEOUT_SECONDS
idle_expired(idle_time) == idle_time > IDLE_TIMEOUT_SECONDS

\* variant: the sweep does not look at keep_warm
check_idle_models_ignoring_pin(s, lk, t) ==
    [i \in 1..Len(s) |->
        IF s[i].state \in {"warm", "cooling"}
           /\ s[i].name \notin lk
           /\ t - s[i].last_used > IDLE_TIMEOUT_SECONDS
        THEN [s[i] EXCEPT !.state = "cold"]
        ELSE s[i]]

\* the loop of check_idle_models at time t
check_idle_models(s, lk, t) ==
    [i \in 1..Len(s) |->
        IF s[i].state \in {"warm", "cooling"}
           /\ s[i].name \notin lk
           /\ idle_expired(t - s[i].last_used)
           /\ ~s[i].keep_warm
        THEN [s[i] EXCEPT !.state = "cold"]
        ELSE s[i]]

\* Process.is_alive() of the process self.worker refers to
is_alive == wstate \in {"get", "busy", "exiting"}

\* variant: the snapshot lists every slot of the table
get_status_listing_all ==
    [worker_alive |-> worker /\ is_alive,
     active_models |-> { [name |-> slots[i].name, state |-> slots[i].state,
                          memory_mb |-> slots[i].memory_mb] : i \in 1..Len(slots) },
     active_locks |-> locks,
     max_concurrent |-> maxConcurrent,
     license_tier |-> get_tier(key)]

\* get_status
get_status ==
    [worker_alive |-> worker /\ is_alive,
     active_models |-> { [name |-> slots[i].name, state |-> slots[i].state,
                          memory_mb |-> slots[i].memory_mb] : i \in NonCold(slots) },
     active_locks |-> locks,
     max_concurrent |-> maxConcurrent,
     license_tier |-> get_tier(key)]

(***************************************************************************)
(* Initial state: ResourceOrchestrator.__init__ under any licence key      *)
(***************************************************************************)
DefaultModelPath == "./models/mistral-7b-quantized.gguf"
OtherModelPath == "./models/lora.gguf"
ModelPaths == {DefaultModelPath, OtherModelPath}

\* a task dictionary: its type, the number it was submitted under, its
\* model_path (the default when the key is absent) and its number of prompts
Task(ty, i, path, n) == [type |-> ty, id |-> i, path |-> path, n |-> n]
NoTask == Task("none", 0, DefaultModelPath, 0)
PoisonPill == Task("poison_pill", 0, DefaultModelPath, 0)
NoProcess == [state |-> "none", task |-> NoTask, model |-> "none"]
Ret(o, n, kw, r, t) == [op |-> o, name |-> n, kw |-> kw, ret |-> r, task |-> t]
Idle == [at |-> "idle", task |-> 0]
NoCall == [at |-> "idle", name |-> "", kw |-> FALSE]
NoDecision == [feature |-> "", app |-> TRUE, validator |-> TRUE, engine |-> TRUE]
NoSnapshot == [worker_alive |-> FALSE, active_models |-> {}, active_locks |-> {},
               max_concurrent |-> 0, license_tier |-> "unknown"]

\* a text as parse_intent sees it: whether it starts with "system:" or
\* "computer,", the phrases it contains, and the format marker it starts
\* with otherwise
Text(cmd, has, head) == [cmd |-> cmd, has |-> has, head |-> head]

\* no message received yet
NoReply == [text |-> Text(FALSE, {}, "none"), event |-> "none", call |-> "none",
            mode |-> "prose", use_shadow_nodes |-> FALSE]

\* a thread that is in no loop over the slot table; ret is how its last
\* loop ended
NoLoop == [at |-> "idle", op |-> "none", size |-> 0, i |-> 0, ret |-> "none"]

\* no task composed yet
NoPromptTask == [type |-> "none", prompt |-> "", mode |-> "prose",
                use_shadow_nodes |-> FALSE, shadow_nodes |-> "", context |-> ""]

\* the worker instance of the load log has served nothing, and no task has
\* been built
RestIdle ==
    /\ served = 0
    /\ loadLog = <<>>
    /\ ptask = NoPromptTask
    /\ pprompt = <<>>
    /\ orchs = <<>>
    /\ app_orchestrator = 0
    /\ module_orchestrator = 0
    /\ rag_orchestrator = 0
    /\ gpc = [h \in Connections |-> [at |-> "idle", got |-> 0]]
    /\ current_mode = "prose"
    /\ shadow_nodes_enabled = FALSE
    /\ visual_tracking_enabled = FALSE
    /\ sreply = NoReply
    /\ holds = [h \in Connections |-> ""]
    /\ iter = [h \in Connections |-> NoLoop]

OrchInit ==
    /\ RestIdle
    /\ key \in OrchKeys
    /\ maxConcurrent = update_limits(key)
    /\ slots = <<>>
    /\ locks = {}
    /\ now = 0
    /\ worker = FALSE
    /\ wstate = "none"
    /\ wtask = NoTask
    /\ wmodel = "none"
    /\ orphan = NoProcess
    /\ taskq = <<>>
    /\ resultq = <<>>
    /\ nextTask = 1
    /\ pc = [h \in Connections |-> Idle]
    /\ cpc = "idle"
    /\ last = Ret("init", "", FALSE, "none", 0)
    /\ rq = [h \in Connections |-> NoCall]
    /\ snapshot = NoSnapshot
    /\ cached_tier = "none"
    /\ key_hash = "none"
    /\ decision = NoDecision

\* no batch task is being served
NoOutput == [type |-> "none", results |-> <<>>]

BatchIdle ==
    /\ bprompts = <<>>
    /\ bloaded = FALSE
    /\ bresults = <<>>
    /\ bfailed = {}
    /\ bout = NoOutput

\* an empty audio cache directory
NoSynthesis == [ret |-> "none", path |-> <<>>, hit |-> FALSE]

CacheEmpty ==
    /\ vfiller = 0
    /\ vcache = <<>>
    /\ vret = NoSynthesis

Init == OrchInit /\ BatchIdle /\ CacheEmpty

(***************************************************************************)
(* Environment: the clock and the HEARTH_LICENSE_KEY variable              *)
(***************************************************************************)
Tick(deltas) ==
    /\ \E d \in deltas : now + d <= MaxTime /\ now' = now + d
    /\ last' = Ret("tick", "", FALSE, "none", 0)
    /\ UNCHANGED <<otherVars, key, orchVars, workerVars, pc, cpc>>

SetKey ==
    /\ \E k \in OrchKeys : k # key /\ key' = k
    /\ last' = Ret("setkey", "", FALSE, "none", 0)
    /\ UNCHANGED <<otherVars, orchVars, now, workerVars, pc, cpc>>

\* the environment variable set to any key
SetAnyKey ==
    /\ \E k \in Keys : k # key /\ key' = k
    /\ last' = Ret("setkey", "", FALSE, "none", 0)
    /\ UNCHANGED <<otherVars, orchVars, now, workerVars, pc, cpc>>

(***************************************************************************)
(* The licence checks of the three modules                                 *)
(***************************************************************************)
\* LicenseValidator.get_tier; the call returns the tier, and last.name keeps
\* the tier the cache held when it was called
GetTier ==
    /\ cached_tier' = tier_resolved(key, cached_tier, key_hash)
    /\ key_hash' = key_digest(key)
    /\ last' = Ret("get_tier", cached_tier, FALSE,
                   tier_resolved(key, cached_tier, key_hash), 0)
    /\ UNCHANGED <<callVars, decision, batchVars, voiceVars, restVars, key, orchVars, now, workerVars,
                   pc, cpc>>

\* the cache reset by hand, as test_license_validator does
ClearCache ==
    /\ cached_tier' = "none"
    /\ key_hash' = "none"
    /\ last' = Ret("clear", "", FALSE, "none", 0)
    /\ UNCHANGED <<callVars, decision, batchVars, voiceVars, restVars, key, orchVars, now, workerVars,
                   pc, cpc>>

\* one feature asked of app.check_feature_access, of
\* LicenseValidator.can_access and of context_engine.check_pro_feature
CheckFeature(f) ==
    /\ decision' = [feature |-> f,
                    app |-> app_check_feature_access(key, f),
                    validator |-> can_access(tier_resolved(key, cached_tier, key_hash), f),
                    engine |-> check_pro_feature(key, f)]
    /\ cached_tier' = tier_resolved(key, cached_tier, key_hash)
    /\ key_hash' = key_digest(key)
    /\ last' = Ret("check", "", FALSE, "none", 0)
    /\ UNCHANGED <<callVars, batchVars, voiceVars, restVars, key, orchVars, now, workerVars, pc, cpc>>

(***************************************************************************)
(* request_model                                                           *)
(***************************************************************************)
\* variant: admission never evicts
admit_without_eviction(s, lk, k, mx) == s

\* lines 113-119: admission, with LRU eviction on tiers without multi_lora
admit(s, lk, k, mx) ==
    IF current_models(s) >= mx /\ ~can_access_feature(k, "multi_lora")
    THEN unload_oldest_model(s, lk)
    ELSE s

\* variant: the Cold slots of other names are dropped from the table first
ensure_slot_dropping_cold(s, n, kw, t) ==
    LET kept == SelectSeq(s, LAMBDA x : x.state # "cold" \/ x.name = n)
    IN  IF n \notin SlotNames(kept)
        THEN Append(kept, ModelSlot(n, "cold", t, kw))
        ELSE kept

\* lines 122-129: create the slot when the name is unseen
ensure_slot(s, n, kw, t) ==
    IF n \notin SlotNames(s) THEN Append(s, ModelSlot(n, "cold", t, kw)) ELSE s

\* variant: the update leaves keep_warm as it was
touch_slot_keeps_pin(s, n, kw, t) ==
    [s EXCEPT ![IndexOf(s, n)] =
        [@ EXCEPT !.last_used = t, !.state = "warm"]]

\* lines 131-134: update of the slot
touch_slot(s, n, kw, t) ==
    [s EXCEPT ![IndexOf(s, n)] =
        [@ EXCEPT !.last_used = t, !.keep_warm = kw, !.state = "warm"]]

request_slots(s, lk, n, kw, t, k, mx) ==
    touch_slot(ensure_slot(admit(s, lk, k, mx), n, kw, t), n, kw, t)

request_locks(lk, n) == lk \cup {n}

\* variant: request_model makes sure of the worker as generate_text does
request_model_spawning(n, kw) ==
    /\ slots' = request_slots(slots, locks, n, kw, now, key, maxConcurrent)
    /\ locks' = request_locks(locks, n)
    /\ last' = Ret("request", n, kw, n, 0)
    /\ IF ~worker \/ wstate \notin {"get", "busy", "exiting"}
       THEN worker' = TRUE /\ wstate' = "get"
       ELSE UNCHANGED <<worker, wstate>>
    /\ UNCHANGED <<otherVars, key, maxConcurrent, now, wtask, wmodel, orphan, taskq,
                   resultq, nextTask, pc, cpc>>

request_model(n, kw) ==
    /\ slots' = request_slots(slots, locks, n, kw, now, key, maxConcurrent)
    /\ locks' = request_locks(locks, n)
    /\ last' = Ret("request", n, kw, n, 0)
    /\ UNCHANGED <<otherVars, key, maxConcurrent, now, workerVars, pc, cpc>>

(***************************************************************************)
(* release_lock                                                            *)
(***************************************************************************)
\* variant: the name stays locked when it is released
release_locks_kept(lk, n) == lk

\* lines 149-150: the name is deleted from _active_locks
release_locks(lk, n) == lk \ {n}

\* variant: release cools the slot whether or not it is kept warm
release_slots_always_cooling(s, n, t) ==
    IF n \in SlotNames(s)
    THEN [s EXCEPT ![IndexOf(s, n)] =
            [@ EXCEPT !.last_used = t, !.state = "cooling"]]
    ELSE s

release_slots(s, n, t) ==
    IF n \in SlotNames(s)
    THEN LET slot == SlotOf(s, n)
         IN  [s EXCEPT ![IndexOf(s, n)] =
                [slot EXCEPT !.last_used = t,
                             !.state = IF slot.keep_warm THEN slot.state
                                       ELSE "cooling"]]
    ELSE s

release_lock(n) ==
    /\ locks' = release_locks(locks, n)
    /\ slots' = release_slots(slots, n, now)
    /\ last' = Ret("release", n, FALSE, "none", 0)
    /\ UNCHANGED <<otherVars, key, maxConcurrent, now, workerVars, pc, cpc>>

(***************************************************************************)
(* check_idle_models called on its own (periodic sweep)                    *)
(***************************************************************************)
\* variant: the sweep also tells the worker to stop
sweep_idle_stopping_worker ==
    /\ slots' = check_idle_models(slots, locks, now)
    /\ last' = Ret("sweep", "", FALSE, "none", 0)
    /\ taskq' = IF Len(taskq) < MaxQueue THEN Append(taskq, PoisonPill) ELSE taskq
    /\ UNCHANGED <<otherVars, key, maxConcurrent, locks, now, worker, wstate, wtask,
                   wmodel, orphan, resultq, nextTask, pc, cpc>>

sweep_idle ==
    /\ slots' = check_idle_models(slots, locks, now)
    /\ last' = Ret("sweep", "", FALSE, "none", 0)
    /\ UNCHANGED <<otherVars, key, maxConcurrent, locks, now, workerVars, pc, cpc>>

(***************************************************************************)
(* get_status, called by a connection handler or a health endpoint; its    *)
(* tier lookup refreshes the validator's cache                             *)
(***************************************************************************)
Status ==
    /\ snapshot' = get_status
    /\ cached_tier' = tier_resolved(key, cached_tier, key_hash)
    /\ key_hash' = key_digest(key)
    /\ last' = Ret("status", "", FALSE, "none", 0)
    /\ UNCHANGED <<rq, decision, batchVars, voiceVars, restVars, key, orchVars, now, workerVars, pc, cpc>>

(***************************************************************************)
(* generate_text, in two steps: up to the blocking result_queue.get(), and *)
(* from the arrival of a result to the return                              *)
(***************************************************************************)
Modes == {"prose", "comic"}

\* _ensure_worker_alive: the state of the worker process after the call
ensure_worker_alive ==
    IF ~worker \/ ~is_alive
    THEN /\ worker' = TRUE
         /\ wstate' = "get"
         /\ wtask' = NoTask
         /\ wmodel' = "none"
    ELSE UNCHANGED <<worker, wstate, wtask, wmodel>>

GenerateDenied(h, mode) ==
    /\ pc[h].at = "idle"
    /\ mode = "comic" /\ ~can_access_feature(key, "comic_mode")
    /\ ensure_worker_alive
    /\ last' = Ret("generate", "", FALSE, "denied", 0)
    /\ UNCHANGED <<otherVars, key, orchVars, now, orphan, taskq, resultq, nextTask, pc, cpc>>

\* Process.start() raises (line 98) after the new InferenceWorker has been
\* assigned to self.worker (line 97): the exception leaves generate_text
GenerateSpawnFails(h) ==
    /\ pc[h].at = "idle"
    /\ ~worker \/ ~is_alive
    /\ worker' = TRUE
    /\ wstate' = "none"
    /\ wtask' = NoTask
    /\ wmodel' = "none"
    /\ last' = Ret("generate", "", FALSE, "raised", 0)
    /\ UNCHANGED <<otherVars, key, orchVars, now, orphan, taskq, resultq, nextTask, pc, cpc>>

GenerateBegin(h, mode) ==
    /\ pc[h].at = "idle"
    /\ nextTask <= MaxTasks
    /\ Len(taskq) < MaxQueue
    /\ ~(mode = "comic" /\ ~can_access_feature(key, "comic_mode"))
    /\ ensure_worker_alive
    /\ taskq' = Append(taskq, Task("generate", nextTask, DefaultModelPath, 1))
    /\ nextTask' = nextTask + 1
    /\ pc' = [pc EXCEPT ![h] = [at |-> "wait", task |-> nextTask]]
    /\ UNCHANGED <<otherVars, key, orchVars, now, orphan, resultq, cpc, last>>

GenerateEnd(h) ==
    /\ pc[h].at = "wait"
    /\ resultq # <<>>
    /\ resultq' = Tail(resultq)
    /\ slots' = check_idle_models(slots, locks, now)
    /\ pc' = [pc EXCEPT ![h] = Idle]
    /\ last' = Ret("generate", "", FALSE, Head(resultq).kind, Head(resultq).task)
    /\ UNCHANGED <<otherVars, key, maxConcurrent, locks, now, worker, wstate, wtask,
                   wmodel, orphan, taskq, nextTask, cpc>>

(***************************************************************************)
(* collapse_to_zero, in two steps when it has a live worker to join        *)
(***************************************************************************)
\* variant: the slots are left as they are
all_cold_skipped(s) == s

\* lines 251-252: every slot is set to COLD
all_cold(s) == [i \in 1..Len(s) |-> [s[i] EXCEPT !.state = "cold"]]

\* variant: join() without timeout returns only once the worker has exited
join_without_timeout == wstate = "exited"

\* worker.join(timeout=5) returns: the worker has exited or the timeout ran out
join_returns == TRUE

CollapseBegin(force) ==
    /\ cpc = "idle"
    /\ IF worker /\ is_alive
       THEN /\ Len(taskq) < MaxQueue
            /\ taskq' = Append(taskq, PoisonPill)
            /\ cpc' = "join"
            /\ UNCHANGED <<slots, locks, last>>
       ELSE /\ slots' = all_cold(slots)
            /\ locks' = {}
            /\ last' = Ret("collapse", "", FALSE, "none", 0)
            /\ UNCHANGED <<taskq, cpc>>
    /\ UNCHANGED <<otherVars, key, maxConcurrent, now, worker, wstate, wtask, wmodel,
                   orphan, resultq, nextTask, pc>>

\* join() has returned; lines 245-256.  The call returns "terminated" when
\* it had to terminate the process, with the number of the task the process
\* was serving
CollapseJoin ==
    /\ cpc = "join"
    /\ join_returns
    /\ worker' = FALSE
    /\ wstate' = "none"
    /\ wtask' = NoTask
    /\ wmodel' = "none"
    /\ slots' = all_cold(slots)
    /\ locks' = {}
    /\ cpc' = "idle"
    /\ last' = Ret("collapse", "", FALSE,
                   IF is_alive THEN "terminated" ELSE "joined",
                   IF wstate = "busy" THEN wtask.id ELSE 0)
    /\ UNCHANGED <<otherVars, key, maxConcurrent, now, orphan, taskq, resultq, nextTask, pc>>

(***************************************************************************)
(* InferenceWorker.run                                                     *)
(***************************************************************************)
\* variant: the worker takes the newest task of the queue
task_get_newest(q) == [task |-> q[Len(q)], rest |-> SubSeq(q, 1, Len(q) - 1)]

\* line 234: task_queue.get() hands out the oldest task
task_get(q) == [task |-> Head(q), rest |-> Tail(q)]

\* variant: the model is loaded for every task, the active one included
needs_load_every_task(task, model) ==
    task.type \in {"generate", "reload_model"} \/ (task.type = "batch_generate" /\ task.n > 0)

\* _load_model has work to do (and may raise) for this task: lines 68, 165,
\* 213-215 and 251-254
needs_load(task, model) ==
    CASE task.type = "generate" -> model # task.path
      [] task.type = "batch_generate" -> task.n > 0 /\ model # task.path
      [] task.type = "reload_model" -> TRUE
      [] OTHER -> FALSE

\* _current_model once the task is served
model_after(task, model) ==
    CASE task.type = "generate" -> task.path
      [] task.type = "batch_generate" -> IF task.n > 0 THEN task.path ELSE model
      [] task.type = "reload_model" -> task.path
      [] OTHER -> model

\* what the worker puts on the result queue for a task it has served
Outcomes(task) ==
    CASE task.type = "generate" -> {"ok", "error"}
      [] task.type = "batch_generate" -> {"batch"}
      [] task.type = "reload_model" -> {"model_reloaded"}
      [] task.type = "status" -> {"alive"}
      [] OTHER -> {"unknown_type"}

Result(kind, task) == [kind |-> kind, task |-> task.id]

\* variant: the poison pill is served like any other task
WorkerTake_pill_as_task ==
    /\ wstate = "get"
    /\ taskq # <<>>
    /\ taskq' = task_get(taskq).rest
    /\ wtask' = task_get(taskq).task
    /\ wstate' = "busy"
    /\ UNCHANGED <<otherVars, key, orchVars, now, worker, wmodel, orphan, resultq,
                   nextTask, pc, cpc, last>>

WorkerTake ==
    /\ wstate = "get"
    /\ taskq # <<>>
    /\ taskq' = task_get(taskq).rest
    /\ wtask' = task_get(taskq).task
    /\ IF task_get(taskq).task.type = "poison_pill"
       THEN /\ wstate' = "exiting"
            /\ wmodel' = "none"
       ELSE /\ wstate' = "busy"
            /\ UNCHANGED wmodel
    /\ UNCHANGED <<otherVars, key, orchVars, now, worker, orphan, resultq, nextTask, pc, cpc, last>>

\* the task is served: the model is loaded, inference succeeded or raised
WorkerFinish ==
    /\ wstate = "busy"
    /\ \E outcome \in Outcomes(wtask) :
          resultq' = Append(resultq, Result(outcome, wtask))
    /\ wmodel' = model_after(wtask, wmodel)
    /\ wstate' = "get"
    /\ wtask' = NoTask
    /\ UNCHANGED <<otherVars, key, orchVars, now, worker, orphan, taskq, nextTask, pc, cpc, last>>

\* _load_model raises: run() reports the error and leaves its loop
WorkerFatal ==
    /\ wstate = "busy"
    /\ needs_load(wtask, wmodel)
    /\ resultq' = Append(resultq, Result("fatal", wtask))
    /\ wstate' = "exiting"
    /\ wmodel' = "none"
    /\ wtask' = NoTask
    /\ UNCHANGED <<otherVars, key, orchVars, now, worker, orphan, taskq, nextTask, pc, cpc, last>>

\* run() has returned: the process ends
WorkerExit ==
    /\ wstate = "exiting"
    /\ wstate' = "exited"
    /\ UNCHANGED <<otherVars, key, orchVars, now, worker, wtask, wmodel, orphan, taskq,
                   resultq, nextTask, pc, cpc, last>>

\* the process dies without reporting (killed, native crash)
WorkerDie ==
    /\ wstate \in {"get", "busy"}
    /\ wstate' = "exited"
    /\ wmodel' = "none"
    /\ wtask' = NoTask
    /\ UNCHANGED <<otherVars, key, orchVars, now, worker, orphan, taskq, resultq, nextTask, pc, cpc, last>>

(***************************************************************************)
(* app.get_orchestrator, statement by statement, and the imports of the    *)
(* core package                                                            *)
(***************************************************************************)
\* ResourceOrchestrator(): a new object whose limit is set from the key
constructed(os, k) == Append(os, update_limits(k))

\* the objects after core.resource_manager has been imported: its last
\* statement constructs the module's own orchestrator, once per process
imported(os, m, k) == IF m = 0 THEN constructed(os, k) ELSE os

\* the module's orchestrator after the import
module_instance(os, m) == IF m = 0 THEN Len(os) + 1 ELSE m

\* line 35: the test of the global
GetOrchestratorCheck(h) ==
    /\ gpc[h].at = "idle"
    /\ gpc' = [gpc EXCEPT ![h] =
                 IF app_orchestrator = 0
                 THEN [at |-> "construct", got |-> 0]
                 ELSE [at |-> "idle", got |-> app_orchestrator]]
    /\ last' = Ret("get_orchestrator", "", FALSE, "none", 0)
    /\ UNCHANGED <<callVars, validatorVars, batchVars, voiceVars, loadVars,
                   promptVars, sessionVars, handleVars, orchs, app_orchestrator, module_orchestrator,
                   rag_orchestrator, key, orchVars, now, workerVars, pc, cpc>>

\* lines 36-39: the import, the construction and the assignment
GetOrchestratorConstruct(h) ==
    /\ gpc[h].at = "construct"
    /\ orchs' = constructed(imported(orchs, module_orchestrator, key), key)
    /\ module_orchestrator' = module_instance(orchs, module_orchestrator)
    /\ app_orchestrator' = Len(orchs')
    /\ gpc' = [gpc EXCEPT ![h] = [at |-> "idle", got |-> Len(orchs')]]
    /\ last' = Ret("get_orchestrator", "", FALSE, "constructed", 0)
    /\ UNCHANGED <<callVars, validatorVars, batchVars, voiceVars, loadVars,
                   promptVars, sessionVars, handleVars, rag_orchestrator, key, orchVars, now, workerVars,
                   pc, cpc>>

\* core.context_engine is imported: rag_engine is built on the orchestrator
\* of core.resource_manager
ImportContextEngine ==
    /\ rag_orchestrator = 0
    /\ orchs' = imported(orchs, module_orchestrator, key)
    /\ module_orchestrator' = module_instance(orchs, module_orchestrator)
    /\ rag_orchestrator' = module_orchestrator'
    /\ last' = Ret("import", "", FALSE, "none", 0)
    /\ UNCHANGED <<callVars, validatorVars, batchVars, voiceVars, loadVars,
                   promptVars, sessionVars, handleVars, app_orchestrator, gpc, key, orchVars, now,
                   workerVars, pc, cpc>>

(***************************************************************************)
(* app.parse_intent and the 'generate' branch of hearth_stream             *)
(***************************************************************************)
\* the phrases parse_intent looks for in a command ("comic" stands for
\* comic or marvel, "playwright" for playwright or stage, and so on)
Words == {"switch to", "comic", "screenplay", "playwright", "children", "game",
          "prose", "enable shadow nodes", "enable visual tracking",
          "enable collaboration", "status", "collapse"}

\* the format markers of the implicit triggers: INT./EXT./EST., PAGE n or
\* PANEL n, ACT n or SCENE n
Heads == {"none", "slugline", "panel", "act"}

\* the texts a client sends: commands of a few phrases, and plain text
Texts37 ==
    { Text(TRUE, w, "none") : w \in { x \in SUBSET Words : Cardinality(x) <= MaxWords } }
        \cup { Text(FALSE, {}, hd) : hd \in Heads }

Intent(c, i, m) == [is_cmd |-> c, intent |-> i, meta |-> m]

\* the denial or the result, as each gated branch of parse_intent returns it
gated(k, feature, intent, meta) ==
    IF app_check_feature_access(k, feature)
    THEN Intent(TRUE, intent, meta)
    ELSE Intent(TRUE, "denial", feature)

\* variant: a comic panel marker switches the mode on every tier
implicit_intent_unchecked(text, k) ==
    CASE text.head = "slugline" -> Intent(FALSE, "implicit_switch", "screenplay")
      [] text.head = "panel" -> Intent(FALSE, "implicit_switch", "comic")
      [] text.head = "act" -> Intent(FALSE, "implicit_switch", "playwright")
      [] OTHER -> Intent(FALSE, "write", "none")

\* lines 219-236: the implicit triggers and the default
implicit_intent(text, k) ==
    IF text.head = "slugline" THEN Intent(FALSE, "implicit_switch", "screenplay")
    ELSE IF text.head = "panel" /\ app_check_feature_access(k, "comic_mode")
    THEN Intent(FALSE, "implicit_switch", "comic")
    ELSE IF text.head = "act" THEN Intent(FALSE, "implicit_switch", "playwright")
    ELSE Intent(FALSE, "write", "none")

\* lines 171-216: the commands below the mode switches
toggle_intent(text, k) ==
    IF "enable shadow nodes" \in text.has
    THEN gated(k, "shadow_nodes", "toggle_feature", "shadow_nodes")
    ELSE IF "enable visual tracking" \in text.has
    THEN gated(k, "visual_tracking", "toggle_feature", "visual_tracking")
    ELSE IF "enable collaboration" \in text.has
    THEN gated(k, "collaboration", "toggle_feature", "collaboration")
    ELSE IF "status" \in text.has THEN Intent(TRUE, "status", "none")
    ELSE IF "collapse" \in text.has THEN Intent(TRUE, "collapse", "none")
    ELSE implicit_intent(text, k)

\* parse_intent
parse_intent(text, k) ==
    IF ~text.cmd THEN implicit_intent(text, k)
    ELSE IF "switch to" \notin text.has THEN toggle_intent(text, k)
    ELSE IF "comic" \in text.has THEN gated(k, "comic_mode", "switch_mode", "comic")
    ELSE IF "screenplay" \in text.has THEN Intent(TRUE, "switch_mode", "screenplay")
    ELSE IF "playwright" \in text.has THEN Intent(TRUE, "switch_mode", "playwright")
    ELSE IF "children" \in text.has THEN Intent(TRUE, "switch_mode", "children")
    ELSE IF "game" \in text.has THEN gated(k, "shadow_nodes", "switch_mode", "game")
    ELSE IF "prose" \in text.has THEN Intent(TRUE, "switch_mode", "prose")
    ELSE toggle_intent(text, k)

\* what the handler sends or calls for a command (lines 278-332), and for a
\* text that goes on to generation (340-348)
handler_event(r) ==
    CASE r.intent = "denial" -> "feature_locked"
      [] r.intent = "switch_mode" -> "mode_switch"
      [] r.intent = "toggle_feature" ->
            IF r.meta \in {"shadow_nodes", "visual_tracking"}
            THEN "feature_enabled" ELSE "none"
      [] r.intent = "status" -> "status"
      [] r.intent = "collapse" -> "collapsed"
      [] OTHER -> "text_delta"

handler_call(r) ==
    CASE r.intent = "status" -> "get_status"
      [] r.intent = "collapse" -> "collapse_to_zero"
      [] ~r.is_cmd -> "generate_text"
      [] OTHER -> "none"

\* one 'generate' message handled by hearth_stream
Receive(text) ==
    /\ LET r == parse_intent(text, key)
           mode == IF r.intent \in {"switch_mode", "implicit_switch"}
                   THEN r.meta ELSE current_mode
       IN  /\ current_mode' = mode
           /\ shadow_nodes_enabled' =
                (shadow_nodes_enabled
                    \/ (r.intent = "toggle_feature" /\ r.meta = "shadow_nodes"))
           /\ visual_tracking_enabled' =
                (visual_tracking_enabled
                    \/ (r.intent = "toggle_feature" /\ r.meta = "visual_tracking"))
           /\ sreply' = [text |-> text, event |-> handler_event(r),
                         call |-> handler_call(r), mode |-> mode,
                         use_shadow_nodes |-> shadow_nodes_enabled]
    /\ last' = Ret("receive", "", FALSE, "none", 0)
    /\ UNCHANGED <<callVars, validatorVars, batchVars, voiceVars, loadVars,
                   promptVars, singletonVars, handleVars, key, orchVars, now, workerVars,
                   pc, cpc>>

(***************************************************************************)
(* The generate task generate_text builds and the prompt the worker        *)
(* composes for it                                                         *)
(***************************************************************************)
UserPrompts == {"Brian enters the lab."}
PromptModes == {"prose", "comic", "noir"}
Contexts == {"", "bible"}
\* the 'shadow_nodes' entry of a task: absent or empty (""), or one of two texts
Payloads == {"", "open loop 1", "open loop 2"}

MODE_PROMPTS == {"prose", "screenplay", "comic", "playwright", "children", "game"}

\* line 135: MODE_PROMPTS.get(mode, MODE_PROMPTS["prose"])
system_prompt(mode) == IF mode \in MODE_PROMPTS THEN mode ELSE "prose"

\* _build_prompt: the parts it joins, each a marker and its text
build_prompt(user_prompt, mode, context, shadow_nodes) ==
    <<<<"[SYSTEM]", system_prompt(mode)>>>>
    \o (IF context # "" THEN <<<<"[CONTEXT]", context>>>> ELSE <<>>)
    \o (IF shadow_nodes # ""
        THEN <<<<"[SHADOW NODES - OPEN LOOPS]", shadow_nodes>>>>
        ELSE <<>>)
    \o <<<<"[USER]", user_prompt>>, <<"[ASSISTANT]", "">>>>

\* variant: the shadow node text is passed on whatever the flag says
full_prompt_ignoring_flag(task) ==
    build_prompt(task.prompt, task.mode, task.context, task.shadow_nodes)

\* lines 175-180 of _generate: the shadow node text is passed on only when
\* the task's use_shadow_nodes is set
full_prompt(task) ==
    build_prompt(task.prompt, task.mode, task.context,
                 IF task.use_shadow_nodes THEN task.shadow_nodes ELSE "")

\* line 220 of generate_text
shadow_flag(asked, tier) == asked /\ can_access(tier, "shadow_nodes")

\* generate_text up to the put of the task (lines 204-221); payload and
\* context are the entries a producer adds to the dictionary, which the
\* worker reads at lines 178-179
BuildTask(prompt, mode, asked, payload, context) ==
    /\ LET tier == tier_resolved(key, cached_tier, key_hash) IN
         IF mode = "comic" /\ ~can_access(tier, "comic_mode")
         THEN /\ UNCHANGED ptask
              /\ last' = Ret("build", "", asked, "denied", 0)
         ELSE /\ ptask' = [type |-> "generate", prompt |-> prompt, mode |-> mode,
                           use_shadow_nodes |-> shadow_flag(asked, tier),
                           shadow_nodes |-> payload, context |-> context]
              /\ last' = Ret("build", "", asked, "ok", 0)
    /\ pprompt' = <<>>
    /\ cached_tier' = tier_resolved(key, cached_tier, key_hash)
    /\ key_hash' = key_digest(key)
    /\ UNCHANGED <<callVars, decision, batchVars, voiceVars, loadVars, appVars, handleVars, key,
                   orchVars, now, workerVars, pc, cpc>>

\* the worker composes the prompt of the task
ComposePrompt ==
    /\ ptask.type = "generate"
    /\ pprompt = <<>>
    /\ pprompt' = full_prompt(ptask)
    /\ last' = Ret("compose", "", FALSE, "none", 0)
    /\ UNCHANGED <<callVars, validatorVars, batchVars, voiceVars, loadVars, ptask,
                   appVars, handleVars, key, orchVars, now, workerVars, pc, cpc>>

(***************************************************************************)
(* One worker instance serving generate and reload_model tasks, with the   *)
(* loads _load_model performs written down                                 *)
(***************************************************************************)
\* lines 165-166 of _generate for a task of this model path
ServeGenerate(path) ==
    /\ served < MaxServed
    /\ loadLog' = IF needs_load(Task("generate", 0, path, 1), wmodel)
                  THEN Append(loadLog, path)
                  ELSE loadLog
    /\ wmodel' = model_after(Task("generate", 0, path, 1), wmodel)
    /\ served' = served + 1
    /\ last' = Ret("serve", "", FALSE, path, 0)
    /\ UNCHANGED <<callVars, validatorVars, batchVars, voiceVars, promptVars,
                   appVars, handleVars, key, orchVars, now, worker, wstate, wtask, orphan, taskq,
                   resultq, nextTask, pc, cpc>>

\* lines 249-255: the reload_model branch of run()
ServeReload(path) ==
    /\ served < MaxServed
    /\ loadLog' = <<>>
    /\ wmodel' = model_after(Task("reload_model", 0, path, 1), wmodel)
    /\ served' = served + 1
    /\ last' = Ret("reload", "", FALSE, path, 0)
    /\ UNCHANGED <<callVars, validatorVars, batchVars, voiceVars, promptVars,
                   appVars, handleVars, key, orchVars, now, worker, wstate, wtask, orphan, taskq,
                   resultq, nextTask, pc, cpc>>

(***************************************************************************)
(* generate_text statement by statement, for connections whose threads     *)
(* interleave: the test of line 96, the spawn of lines 97-98, the put of   *)
(* line 223; the wait and the return are GenerateEnd                       *)
(***************************************************************************)
GenerateCheck(h) ==
    /\ pc[h].at = "idle"
    /\ pc' = [pc EXCEPT ![h].at = IF ~worker \/ ~is_alive THEN "spawn" ELSE "put"]
    /\ UNCHANGED <<otherVars, key, orchVars, now, workerVars, cpc, last>>

\* the process self.worker referred to keeps running when it is alive: the
\* assignment only drops the reference (one such process is followed)
GenerateSpawn(h) ==
    /\ pc[h].at = "spawn"
    /\ ~(is_alive /\ orphan.state \in {"get", "busy", "exiting"})
    /\ orphan' = IF is_alive
                 THEN [state |-> wstate, task |-> wtask, model |-> wmodel]
                 ELSE orphan
    /\ worker' = TRUE
    /\ wstate' = "get"
    /\ wtask' = NoTask
    /\ wmodel' = "none"
    /\ pc' = [pc EXCEPT ![h].at = "put"]
    /\ UNCHANGED <<otherVars, key, orchVars, now, taskq, resultq, nextTask, cpc, last>>

GeneratePut(h, mode) ==
    /\ pc[h].at = "put"
    /\ IF mode = "comic" /\ ~can_access_feature(key, "comic_mode")
       THEN /\ pc' = [pc EXCEPT ![h] = Idle]
            /\ last' = Ret("generate", "", FALSE, "denied", 0)
            /\ UNCHANGED <<taskq, nextTask>>
       ELSE /\ nextTask <= MaxTasks
            /\ Len(taskq) < MaxQueue
            /\ taskq' = Append(taskq, Task("generate", nextTask, DefaultModelPath, 1))
            /\ nextTask' = nextTask + 1
            /\ pc' = [pc EXCEPT ![h] = [at |-> "wait", task |-> nextTask]]
            /\ UNCHANGED last
    /\ UNCHANGED <<otherVars, key, orchVars, now, worker, wstate, wtask, wmodel, orphan,
                   resultq, cpc>>

(***************************************************************************)
(* InferenceWorker.run in a process that self.worker no longer refers to   *)
(***************************************************************************)
OrphanTake ==
    /\ orphan.state = "get"
    /\ taskq # <<>>
    /\ taskq' = task_get(taskq).rest
    /\ orphan' = IF task_get(taskq).task.type = "poison_pill"
                 THEN [state |-> "exiting", task |-> task_get(taskq).task,
                       model |-> "none"]
                 ELSE [orphan EXCEPT !.state = "busy", !.task = task_get(taskq).task]
    /\ UNCHANGED <<otherVars, key, orchVars, now, worker, wstate, wtask, wmodel, resultq,
                   nextTask, pc, cpc, last>>

OrphanFinish ==
    /\ orphan.state = "busy"
    /\ \E outcome \in Outcomes(orphan.task) :
          resultq' = Append(resultq, Result(outcome, orphan.task))
    /\ orphan' = [state |-> "get", task |-> NoTask,
                  model |-> model_after(orphan.task, orphan.model)]
    /\ UNCHANGED <<otherVars, key, orchVars, now, worker, wstate, wtask, wmodel, taskq,
                   nextTask, pc, cpc, last>>

OrphanFatal ==
    /\ orphan.state = "busy"
    /\ needs_load(orphan.task, orphan.model)
    /\ resultq' = Append(resultq, Result("fatal", orphan.task))
    /\ orphan' = [state |-> "exiting", task |-> NoTask, model |-> "none"]
    /\ UNCHANGED <<otherVars, key, orchVars, now, worker, wstate, wtask, wmodel, taskq,
                   nextTask, pc, cpc, last>>

OrphanExit ==
    /\ orphan.state = "exiting"
    /\ orphan' = [orphan EXCEPT !.state = "exited"]
    /\ UNCHANGED <<otherVars, key, orchVars, now, worker, wstate, wtask, wmodel, taskq,
                   resultq, nextTask, pc, cpc, last>>

(***************************************************************************)
(* _handle_batch_generate, one iteration of its loop at a time.  The       *)
(* prompts of the task and whether its model is already loaded are the     *)
(* inputs; the inference call of a branch returns or raises                *)
(***************************************************************************)
Prompts == {"p", "q"}

PromptLists == UNION { [1..n -> Prompts] : n \in 0..MaxPrompts }

BatchInit ==
    /\ OrchInit
    /\ bprompts \in PromptLists
    /\ bloaded \in BOOLEAN
    /\ bresults = <<>>
    /\ bfailed = {}
    /\ bout = NoOutput
    /\ CacheEmpty

\* lines 188-202: the output of _generate, the error dictionary when the
\* inference call raised
generate_output(raised) == IF raised THEN "error" ELSE "ok"

\* variant: the entry is put in front of the list
append_branch_first(res, i, prompt, output) ==
    <<[branch |-> i, prompt |-> prompt, output |-> output]>> \o res

\* lines 216-220
append_branch(res, i, prompt, output) ==
    Append(res, [branch |-> i, prompt |-> prompt, output |-> output])

\* lines 213-220: the iteration for branch i = Len(bresults), whose model
\* load (line 166) succeeds when there is one
BatchBranch ==
    /\ bout = NoOutput
    /\ Len(bresults) < Len(bprompts)
    /\ \E raised \in BOOLEAN :
          /\ bresults' = append_branch(bresults, Len(bresults),
                                       bprompts[Len(bresults) + 1],
                                       generate_output(raised))
          /\ bfailed' = IF raised THEN bfailed \cup {Len(bresults)} ELSE bfailed
    /\ bloaded' = TRUE
    /\ UNCHANGED <<callVars, validatorVars, voiceVars, restVars, bprompts, bout, key, orchVars, now,
                   workerVars, pc, cpc, last>>

\* the model load of a branch raises (lines 91-93): the exception leaves the
\* loop and run() puts its terminal error (lines 272-274)
BatchFatal ==
    /\ bout = NoOutput
    /\ Len(bresults) < Len(bprompts)
    /\ ~bloaded
    /\ bout' = [type |-> "error", results |-> <<>>]
    /\ UNCHANGED <<callVars, validatorVars, voiceVars, restVars, bprompts, bloaded, bresults, bfailed,
                   key, orchVars, now, workerVars, pc, cpc, last>>

\* line 222 and the put of line 247
BatchReturn ==
    /\ bout = NoOutput
    /\ Len(bresults) = Len(bprompts)
    /\ bout' = [type |-> "batch", results |-> bresults]
    /\ UNCHANGED <<callVars, validatorVars, voiceVars, restVars, bprompts, bloaded, bresults, bfailed,
                   key, orchVars, now, workerVars, pc, cpc, last>>

(***************************************************************************)
(* VoiceEngine (core/voice_engine.py).  The cache directory is the files   *)
(* of earlier runs, which no call of this run asks for, followed by the    *)
(* files of this run in the order of their access times.  synthesize       *)
(* never loads the TTS model (it reads _model, not the model property), so *)
(* every file it writes is the placeholder of _create_placeholder          *)
(***************************************************************************)
Texts == {"a", "b"}
Voices == {"v0", "v1"}

\* the cache directory as the engine finds it: empty, or holding files of
\* earlier runs up to the most a run can leave behind
FillerCounts == {0, MAX_CACHE_FILES - 1, MAX_CACHE_FILES, MAX_CACHE_FILES + 1}

\* the 44 byte header and the 1024 bytes of silence
PLACEHOLDER_BYTES == 44 + 1024

MEGABYTE == 1024 * 1024

VoiceInit ==
    /\ OrchInit
    /\ BatchIdle
    /\ vfiller \in FillerCounts
    /\ vcache = <<>>
    /\ vret = NoSynthesis

\* _generate_cache_key: the payload text|voice, whose SHA-256 names the file
generate_cache_key(text, voice) == <<text, "|", voice>>

Cached(c) == { c[i] : i \in 1..Len(c) }

Without(c, k) == SelectSeq(c, LAMBDA x : x # k)

Min(a, b) == IF a < b THEN a ELSE b

\* _check_cache on a hit: os.utime makes the file the most recently accessed
touch_file(c, k) == Append(Without(c, k), k)

\* lines 143-148: the number of files the count limit removes, oldest first
files_to_remove(n) ==
    IF n > MAX_CACHE_FILES THEN n - MAX_CACHE_FILES + EVICTION_BUFFER ELSE 0

\* lines 159-170: the number of files the size limit removes, oldest first:
\* files go until the total is at most 80% of the limit
files_over_size(n) ==
    IF n * PLACEHOLDER_BYTES > MAX_CACHE_SIZE_MB * MEGABYTE
    THEN Min(n, (n * PLACEHOLDER_BYTES - (MAX_CACHE_SIZE_MB * MEGABYTE * 8) \div 10
                   + PLACEHOLDER_BYTES - 1) \div PLACEHOLDER_BYTES)
    ELSE 0

\* the directory after its r oldest files are unlinked
filler_after(f, c, r) == f - Min(r, f)
cache_after(f, c, r) == SubSeq(c, Min(r - Min(r, f), Len(c)) + 1, Len(c))

\* line 157: f.stat() is called on every path of the listing made at line
\* 140, and raises FileNotFoundError on a path the count limit has unlinked
stat_raises(r) == r > 0

\* VoiceEngine.synthesize
Synthesize(text, voice) ==
    /\ LET k == generate_cache_key(text, voice)
           n == vfiller + Len(vcache)
           r == files_to_remove(n)
           q == r + files_over_size(n - r)
       IN  IF k \in Cached(vcache)
           THEN /\ vcache' = touch_file(vcache, k)
                /\ vret' = [ret |-> "path", path |-> k, hit |-> TRUE]
                /\ UNCHANGED vfiller
           ELSE IF stat_raises(r)
           THEN /\ vfiller' = filler_after(vfiller, vcache, r)
                /\ vcache' = cache_after(vfiller, vcache, r)
                /\ vret' = [ret |-> "raised", path |-> k, hit |-> FALSE]
           ELSE /\ vfiller' = filler_after(vfiller, vcache, q)
                /\ vcache' = Append(cache_after(vfiller, vcache, q), k)
                /\ vret' = [ret |-> "path", path |-> k, hit |-> FALSE]
    /\ UNCHANGED <<callVars, validatorVars, batchVars, restVars, key, orchVars, now,
                   workerVars, pc, cpc, last>>

(***************************************************************************)
(* A client of the worker's task protocol: any of the task types run()     *)
(* dispatches on, put on the task queue                                    *)
(***************************************************************************)
ProtocolTasks ==
    { <<"generate", DefaultModelPath, 1>>, <<"generate", OtherModelPath, 1>>,
      <<"batch_generate", DefaultModelPath, 0>>, <<"batch_generate", OtherModelPath, 2>>,
      <<"reload_model", DefaultModelPath, 1>>,
      <<"status", DefaultModelPath, 1>>,
      <<"poison_pill", DefaultModelPath, 0>>,
      <<"unknown", DefaultModelPath, 1>> }

PutTask(t) ==
    /\ Len(taskq) < MaxQueue
    /\ IF t[1] = "poison_pill"
       THEN /\ taskq' = Append(taskq, PoisonPill)
            /\ UNCHANGED nextTask
       ELSE /\ nextTask <= MaxTasks
            /\ taskq' = Append(taskq, Task(t[1], nextTask, t[2], t[3]))
            /\ nextTask' = nextTask + 1
    /\ UNCHANGED <<otherVars, key, orchVars, now, worker, wstate, wtask, wmodel, orphan,
                   resultq, pc, cpc, last>>

(***************************************************************************)
(* request_model and release_lock as the threads of two connections run    *)
(* them: a thread can be preempted between any two statements, and the     *)
(* class holds no lock.  The steps are the admission (lines 113-119), the  *)
(* slot update (122-134) and the lock acquisition (137) of request_model,  *)
(* and the lock removal (149-150) and slot update (152-157) of             *)
(* release_lock                                                            *)
(***************************************************************************)
RequestAdmit(h, n, kw) ==
    /\ rq[h].at = "idle"
    /\ slots' = admit(slots, locks, key, maxConcurrent)
    /\ rq' = [rq EXCEPT ![h] = [at |-> "touch", name |-> n, kw |-> kw]]
    /\ UNCHANGED <<snapshot, moduleVars, key, maxConcurrent, locks, now, workerVars, pc, cpc, last>>

RequestTouch(h) ==
    /\ rq[h].at = "touch"
    /\ slots' = touch_slot(ensure_slot(slots, rq[h].name, rq[h].kw, now),
                           rq[h].name, rq[h].kw, now)
    /\ rq' = [rq EXCEPT ![h].at = "lock"]
    /\ UNCHANGED <<snapshot, moduleVars, key, maxConcurrent, locks, now, workerVars, pc, cpc, last>>

RequestLock(h) ==
    /\ rq[h].at = "lock"
    /\ locks' = request_locks(locks, rq[h].name)
    /\ rq' = [rq EXCEPT ![h] = NoCall]
    /\ last' = Ret("request", rq[h].name, rq[h].kw, rq[h].name, 0)
    /\ UNCHANGED <<snapshot, moduleVars, key, maxConcurrent, slots, now, workerVars, pc, cpc>>

ReleaseUnlock(h, n) ==
    /\ rq[h].at = "idle"
    /\ locks' = release_locks(locks, n)
    /\ rq' = [rq EXCEPT ![h] = [at |-> "cool", name |-> n, kw |-> FALSE]]
    /\ UNCHANGED <<snapshot, moduleVars, key, maxConcurrent, slots, now, workerVars, pc, cpc, last>>

ReleaseCool(h) ==
    /\ rq[h].at = "cool"
    /\ slots' = release_slots(slots, rq[h].name, now)
    /\ rq' = [rq EXCEPT ![h] = NoCall]
    /\ last' = Ret("release", rq[h].name, FALSE, "none", 0)
    /\ UNCHANGED <<snapshot, moduleVars, key, maxConcurrent, locks, now, workerVars, pc, cpc>>

(***************************************************************************)
(* Connections that keep the handle request_model returned until they      *)
(* release it                                                              *)
(***************************************************************************)
Acquire(h, n, kw) ==
    /\ holds[h] = ""
    /\ slots' = request_slots(slots, locks, n, kw, now, key, maxConcurrent)
    /\ locks' = request_locks(locks, n)
    /\ holds' = [holds EXCEPT ![h] = n]
    /\ last' = Ret("request", n, kw, h, 0)
    /\ UNCHANGED <<callVars, validatorVars, batchVars, voiceVars, loadVars,
                   promptVars, appVars, iter, key, maxConcurrent, now,
                   workerVars, pc, cpc>>

Relinquish(h) ==
    /\ holds[h] # ""
    /\ locks' = release_locks(locks, holds[h])
    /\ slots' = release_slots(slots, holds[h], now)
    /\ holds' = [holds EXCEPT ![h] = ""]
    /\ last' = Ret("release", holds[h], FALSE, h, 0)
    /\ UNCHANGED <<callVars, validatorVars, batchVars, voiceVars, loadVars,
                   promptVars, appVars, iter, key, maxConcurrent, now,
                   workerVars, pc, cpc>>

(***************************************************************************)
(* The loops over _model_slots of check_idle_models and get_status, one    *)
(* element at a time.  The dictionary iterator remembers the size of the   *)
(* dictionary when the loop starts and raises RuntimeError at its next     *)
(* step when the size has changed                                          *)
(***************************************************************************)
LoopOps == {"sweep", "status"}

\* the body of the loop for element i: check_idle_models turns the slot Cold
\* when it is idle, the listing of get_status writes nothing
loop_body(op, s, lk, t, i) ==
    IF op = "sweep"
    THEN [s EXCEPT ![i] = check_idle_models(s, lk, t)[i]]
    ELSE s

\* the loop starts and handles the first element, if there is one
LoopBegin(h, op) ==
    /\ iter[h].at = "idle"
    /\ IF slots = <<>>
       THEN /\ iter' = [iter EXCEPT ![h] = [NoLoop EXCEPT !.ret = "done"]]
            /\ last' = Ret(op, "", FALSE, "done", 0)
            /\ snapshot' = IF op = "status" THEN get_status ELSE snapshot
            /\ UNCHANGED slots
       ELSE /\ iter' = [iter EXCEPT ![h] = [at |-> "loop", op |-> op,
                                            size |-> Len(slots), i |-> 1,
                                            ret |-> "none"]]
            /\ slots' = loop_body(op, slots, locks, now, 1)
            /\ UNCHANGED <<last, snapshot>>
    /\ UNCHANGED <<rq, validatorVars, batchVars, voiceVars, loadVars, promptVars,
                   appVars, holds, key, maxConcurrent, locks, now, workerVars,
                   pc, cpc>>

\* the next step of the iterator: it raises when the dictionary has changed
\* size, handles the next element, or ends the loop
LoopNext(h) ==
    /\ iter[h].at = "loop"
    /\ IF Len(slots) # iter[h].size
       THEN /\ iter' = [iter EXCEPT ![h] = [NoLoop EXCEPT !.ret = "raised"]]
            /\ last' = Ret(iter[h].op, "", FALSE, "raised", 0)
            /\ UNCHANGED <<slots, snapshot>>
       ELSE IF iter[h].i < iter[h].size
       THEN /\ iter' = [iter EXCEPT ![h].i = @ + 1]
            /\ slots' = loop_body(iter[h].op, slots, locks, now, iter[h].i + 1)
            /\ UNCHANGED <<last, snapshot>>
       ELSE /\ iter' = [iter EXCEPT ![h] = [NoLoop EXCEPT !.ret = "done"]]
            /\ last' = Ret(iter[h].op, "", FALSE, "done", 0)
            /\ snapshot' = IF iter[h].op = "status" THEN get_status ELSE snapshot
            /\ UNCHANGED slots
    /\ UNCHANGED <<rq, validatorVars, batchVars, voiceVars, loadVars, promptVars,
                   appVars, holds, key, maxConcurrent, locks, now, workerVars,
                   pc, cpc>>

(***************************************************************************)
(* Specification                                                           *)
(***************************************************************************)
Next ==
    \/ Tick(PastTimeout)
    \/ \E n \in CoreNames, kw \in BOOLEAN : request_model(n, kw)
    \/ \E n \in CoreNames : release_lock(n)
    \/ sweep_idle
    \/ \E h \in Handlers, m \in Modes : GenerateDenied(h, m)
    \/ \E h \in Handlers : GenerateSpawnFails(h)
    \/ \E h \in Handlers, m \in Modes : GenerateBegin(h, m)
    \/ \E h \in Handlers : GenerateEnd(h)
    \/ \E f \in BOOLEAN : CollapseBegin(f)
    \/ CollapseJoin
    \/ WorkerTake
    \/ WorkerFinish
    \/ WorkerFatal
    \/ WorkerExit
    \/ WorkerDie

Spec == Init /\ [][Next]_vars

\* the slot table alone: three model names and licence key changes
TableNames == Names \ {"coqui-tts"}

SlotNext ==
    \/ Tick(CoarseDeltas)
    \/ SetKey
    \/ \E n \in TableNames, kw \in BOOLEAN : request_model(n, kw)
    \/ \E n \in TableNames : release_lock(n)
    \/ sweep_idle

SlotSpec == Init /\ [][SlotNext]_vars

\* the slot table under all four model names, for callers that release a
\* model before they request the next one (core/context_engine.py)
RagNext ==
    \/ Tick(TickDeltas)
    \/ \E n \in Names, kw \in BOOLEAN : locks = {} /\ request_model(n, kw)
    \/ \E n \in Names : n \in locks /\ release_lock(n)
    \/ sweep_idle

RagSpec == Init /\ [][RagNext]_vars

\* the worker and its two callers alone; collapse_to_zero runs on once called
WorkerNext ==
    \/ \E h \in Handlers, m \in Modes : GenerateDenied(h, m)
    \/ \E h \in Handlers : GenerateSpawnFails(h)
    \/ \E h \in Handlers, m \in Modes : GenerateBegin(h, m)
    \/ \E h \in Handlers : GenerateEnd(h)
    \/ \E f \in BOOLEAN : CollapseBegin(f)
    \/ CollapseJoin
    \/ WorkerTake
    \/ WorkerFinish
    \/ WorkerFatal
    \/ WorkerExit
    \/ WorkerDie

WorkerSpec == Init /\ [][WorkerNext]_vars

LiveSpec == WorkerSpec /\ WF_vars(CollapseJoin)

\* the same under fair scheduling: a worker process that can run does run,
\* join() returns, and a generate_text call whose result_queue.get() can
\* return does return; a crash of the process is never forced
FairSpec ==
    /\ WorkerSpec
    /\ WF_vars(WorkerTake)
    /\ WF_vars(WorkerFinish)
    /\ WF_vars(WorkerExit)
    /\ WF_vars(CollapseJoin)
    /\ \A h \in Handlers : WF_vars(GenerateEnd(h))

\* two connections served at the same time by the threaded server, each
\* calling generate_text, with collapse_to_zero called beside them; no
\* process crashes and no spawn fails
DuoNext ==
    \/ \E h \in Connections, m \in Modes : GenerateBegin(h, m)
    \/ \E h \in Connections : GenerateEnd(h)
    \/ \E f \in BOOLEAN : CollapseBegin(f)
    \/ CollapseJoin
    \/ WorkerTake
    \/ WorkerFinish
    \/ WorkerFatal
    \/ WorkerExit

DuoSpec == Init /\ [][DuoNext]_vars

\* one connection, collapse_to_zero and a client of the task protocol
ProtoNext ==
    \/ \E t \in ProtocolTasks : PutTask(t)
    \/ \E h \in Handlers, m \in Modes : GenerateBegin(h, m)
    \/ \E h \in Handlers : GenerateEnd(h)
    \/ \E f \in BOOLEAN : CollapseBegin(f)
    \/ CollapseJoin
    \/ WorkerTake
    \/ WorkerFinish
    \/ WorkerFatal
    \/ WorkerExit
    \/ WorkerDie

ProtoSpec == Init /\ [][ProtoNext]_vars

\* the same with a worker process that runs on when it can and a join()
\* that returns
ProtoLiveSpec == ProtoSpec /\ WF_vars(WorkerExit) /\ WF_vars(CollapseJoin)

\* two connections whose threads interleave inside generate_text
RaceNext ==
    \/ \E h \in Connections : GenerateCheck(h)
    \/ \E h \in Connections : GenerateSpawn(h)
    \/ \E h \in Connections, m \in Modes : GeneratePut(h, m)
    \/ \E h \in Connections : GenerateEnd(h)
    \/ \E f \in BOOLEAN : CollapseBegin(f)
    \/ CollapseJoin
    \/ WorkerTake
    \/ WorkerFinish
    \/ WorkerFatal
    \/ WorkerExit
    \/ OrphanTake
    \/ OrphanFinish
    \/ OrphanFatal
    \/ OrphanExit

RaceSpec == Init /\ [][RaceNext]_vars

\* two connections whose threads interleave inside request_model and
\* release_lock, with the idle sweep and collapse_to_zero called beside them
ThreadNext ==
    \/ Tick(PastTimeout)
    \/ \E h \in Connections, n \in CoreNames, kw \in BOOLEAN : RequestAdmit(h, n, kw)
    \/ \E h \in Connections : RequestTouch(h)
    \/ \E h \in Connections : RequestLock(h)
    \/ \E h \in Connections, n \in CoreNames : ReleaseUnlock(h, n)
    \/ \E h \in Connections : ReleaseCool(h)
    \/ sweep_idle
    \/ \E f \in BOOLEAN : CollapseBegin(f)

ThreadSpec == Init /\ [][ThreadNext]_vars

\* one connection using the orchestrator under a licence key that can
\* change, with one generate_text call in flight, and get_status called at
\* any moment
StatusNext ==
    \/ SetKey
    \/ \E n \in CoreNames, kw \in BOOLEAN : request_model(n, kw)
    \/ \E n \in CoreNames : release_lock(n)
    \/ \E h \in Handlers : GenerateBegin(h, "prose")
    \/ \E f \in BOOLEAN : CollapseBegin(f)
    \/ CollapseJoin
    \/ Status

StatusSpec == Init /\ [][StatusNext]_vars

\* the callers of the program as it is run: request_model, release_lock
\* and generate_text, whose return is the one call site of
\* check_idle_models; no thread or timer of the program calls it.  Time
\* passes, the worker serves the task it can take and a result that has
\* arrived is received
PurgeNext ==
    \/ Tick(PastTimeout)
    \/ \E n \in CoreNames, kw \in BOOLEAN : request_model(n, kw)
    \/ \E n \in CoreNames : release_lock(n)
    \/ \E h \in Handlers : GenerateBegin(h, "prose")
    \/ \E h \in Handlers : GenerateEnd(h)
    \/ WorkerTake
    \/ WorkerFinish

PurgeSpec ==
    /\ Init /\ [][PurgeNext]_vars
    /\ WF_vars(Tick(PastTimeout))
    /\ WF_vars(WorkerTake)
    /\ WF_vars(WorkerFinish)
    /\ \A h \in Handlers : WF_vars(GenerateEnd(h))

\* the worker serving one batch_generate task
BatchNext ==
    \/ BatchBranch
    \/ BatchFatal
    \/ BatchReturn

BatchSpec == BatchInit /\ [][BatchNext]_vars

\* the licence checks under a key that changes between calls
LicenceNext ==
    \/ SetAnyKey
    \/ GetTier
    \/ ClearCache
    \/ \E f \in Features : CheckFeature(f)

LicenceSpec == Init /\ [][LicenceNext]_vars

\* the speak action of the connections: texts synthesized in any order
VoiceNext == \E text \in Texts, voice \in Voices : Synthesize(text, voice)

VoiceSpec == VoiceInit /\ [][VoiceNext]_vars

\* the tasks one worker instance is given, over two model paths
LoadNext ==
    \/ \E path \in ModelPaths : ServeGenerate(path)
    \/ \E path \in ModelPaths : ServeReload(path)

LoadSpec == Init /\ [][LoadNext]_vars

\* tasks built under any licence key and composed by the worker
PromptNext ==
    \/ SetAnyKey
    \/ \E prompt \in UserPrompts, mode \in PromptModes, asked \in BOOLEAN,
          payload \in Payloads, context \in Contexts :
            BuildTask(prompt, mode, asked, payload, context)
    \/ ComposePrompt

PromptSpec == Init /\ [][PromptNext]_vars

\* every operation of the orchestrator called by one connection, with the
\* worker serving and exiting, as time passes
FrameNext ==
    \/ Tick(PastTimeout)
    \/ \E n \in CoreNames, kw \in BOOLEAN : request_model(n, kw)
    \/ \E n \in CoreNames : release_lock(n)
    \/ sweep_idle
    \/ \E h \in Handlers : GenerateBegin(h, "prose")
    \/ \E h \in Handlers : GenerateEnd(h)
    \/ \E f \in BOOLEAN : CollapseBegin(f)
    \/ CollapseJoin
    \/ WorkerTake
    \/ WorkerFinish
    \/ WorkerExit

FrameSpec == Init /\ [][FrameNext]_vars

\* the calls of SeriesContextEngine: _get_embedding requests the embedding
\* model unpinned and releases it, generate_with_context requests the
\* generation model pinned and releases it, one call after the other
EmbeddingModel == "all-MiniLM-L6-v2"

RagCallsNext ==
    \/ Tick(TickDeltas)
    \/ locks = {} /\ request_model(EmbeddingModel, FALSE)
    \/ locks = {} /\ request_model("mistral-7b-quantized", TRUE)
    \/ \E n \in CoreNames : n \in locks /\ release_lock(n)
    \/ sweep_idle

RagCallsSpec == Init /\ [][RagCallsNext]_vars

\* the handler threads of two connections in get_orchestrator, the import
\* of the context engine and licence key changes
SingletonNext ==
    \/ SetKey
    \/ \E h \in Connections : GetOrchestratorCheck(h)
    \/ \E h \in Connections : GetOrchestratorConstruct(h)
    \/ ImportContextEngine

SingletonSpec == Init /\ [][SingletonNext]_vars

\* one WebSocket session under the licence key the process was started with
SessionNext == \E text \in Texts37 : Receive(text)

SessionSpec == Init /\ [][SessionNext]_vars

\* two connections that each hold the handle of the model they requested
HolderNext ==
    \/ Tick(PastTimeout)
    \/ \E h \in Connections, n \in CoreNames, kw \in BOOLEAN : Acquire(h, n, kw)
    \/ \E h \in Connections : Relinquish(h)
    \/ sweep_idle

HolderSpec == Init /\ [][HolderNext]_vars

\* the idle sweep and get_status of one connection, run one loop step at a
\* time beside the requests and releases of other handlers
LoopNextStep ==
    \/ Tick(PastTimeout)
    \/ \E n \in CoreNames, kw \in BOOLEAN : request_model(n, kw)
    \/ \E n \in CoreNames : release_lock(n)
    \/ \E h \in Handlers, op \in LoopOps : LoopBegin(h, op)
    \/ \E h \in Handlers : LoopNext(h)

LoopSpec == Init /\ [][LoopNextStep]_vars

TypeOK ==
    /\ key \in Keys
    /\ maxConcurrent \in {RONIN_LIMIT, PRO_LIMIT}
    /\ locks \subseteq Names
    /\ now \in 0..MaxTime
    /\ worker \in BOOLEAN
    /\ wstate \in {"none", "get", "busy", "exiting", "exited"}
    /\ cpc \in {"idle", "join"}

(***************************************************************************)
(* Properties                                                              *)
(***************************************************************************)
Slot(n) == SlotOf(slots, n)
HasSlot(n) == n \in SlotNames(slots)
Idx == 1..Len(slots)

LockedAreResident ==
    \A n \in locks : HasSlot(n) /\ Slot(n).state \in {"warm", "hot"}

NoLockedSlotGoesCold ==
    \A i \in Idx :
        (slots[i].name \in locks /\ slots[i].state # "cold"
            /\ slots'[i].state = "cold")
        => (cpc' = "idle" /\ locks' = {} /\ slots' = all_cold(slots))

\* C1: every name in the Lock Set has a slot that is Warm or Hot, and no
\* step other than collapse_to_zero (in particular neither the idle sweep
\* nor the LRU eviction of request_model) turns a locked slot Cold.
C1_LockedSlotsStayResident ==
    []LockedAreResident /\ [][NoLockedSlotGoesCold]_vars

\* request_model has just run its eviction on the free tier at the limit,
\* while another model was locked and idle for longer than the timeout
C1_Witness ==
    /\ last.op = "request"
    /\ ~can_access_feature(key, "multi_lora")
    /\ \E i \in Idx :
          /\ slots[i].name # last.name
          /\ slots[i].name \in locks
          /\ slots[i].state = "warm"
          /\ now - slots[i].last_used > IDLE_TIMEOUT_SECONDS

\* the step is a call of request_model, release_lock, check_idle_models
RequestStep == last'.op = "request" /\ request_model(last'.name, last'.kw)
ReleaseStep == last'.op = "release" /\ release_lock(last'.name)
SweepStep == last'.op = "sweep" /\ sweep_idle

Limit == IF maxConcurrent > 1 THEN maxConcurrent ELSE 1

Unlocked(i) == slots[i].name \notin locks

Resident == NonCold(slots)

CountAfterRequest(n, kw) ==
    /\ current_models(slots') <= current_models(slots) + 1
    /\ (/\ current_models(slots) >= maxConcurrent
        /\ ~can_access_feature(key, "multi_lora")
        /\ \E i \in Resident : Unlocked(i))
       => current_models(slots') <= current_models(slots)

C3_AdmissionNeverBlocks ==
    [][(RequestStep /\ \A i \in Resident : ~Unlocked(i))
          => /\ \A i \in Resident :
                  /\ slots'[i].state = slots[i].state
                  /\ slots'[i].name \in locks'
             /\ last'.name \in locks'
             /\ SlotOf(slots', last'.name).state = "warm"]_vars

\* free tier, limit 1: two models Warm and locked after the second request
C3_Witness ==
    /\ last.op = "request"
    /\ maxConcurrent = RONIN_LIMIT
    /\ ~can_access_feature(key, "multi_lora")
    /\ \E i \in Idx :
          /\ slots[i].name # last.name
          /\ slots[i].state = "warm" /\ slots[i].name \in locks
    /\ HasSlot(last.name)
    /\ Slot(last.name).state = "warm" /\ last.name \in locks
    /\ current_models(slots) = 2

ResidentNames == { slots[i].name : i \in Resident }

\* C4 as stated: with exactly MAX_CONCURRENT_MODELS slots resident and all
\* of them unlocked, request_model for a further model turns Cold a
\* resident slot with the smallest last_used and no other resident slot.
C4_LruEviction ==
    [][(/\ RequestStep
        /\ current_models(slots) = maxConcurrent
        /\ \A i \in Resident : Unlocked(i)
        /\ last'.name \notin ResidentNames)
       => \E v \in Resident :
            /\ \A j \in Resident : slots[v].last_used <= slots[j].last_used
            /\ slots'[v].state = "cold"
            /\ \A j \in Resident \ {v} : slots'[j].state # "cold"]_vars

C6_ReleasePostcondition ==
    [][ReleaseStep =>
        LET n == last'.name
        IN  /\ (HasSlot(n) /\ Slot(n).state = "warm" /\ n \in locks)
                => /\ n \notin locks'
                   /\ locks' = locks \ {n}
                   /\ SlotOf(slots', n) =
                        [Slot(n) EXCEPT !.last_used = now,
                                        !.state = IF Slot(n).keep_warm
                                                  THEN "warm" ELSE "cooling"]
            /\ ~HasSlot(n) => (slots' = slots /\ locks' = locks)]_vars

\* a release has just cooled an unpinned slot while a pinned slot released
\* earlier is still Warm
C6_Witness ==
    /\ last.op = "release"
    /\ HasSlot(last.name)
    /\ Slot(last.name).state = "cooling"
    /\ Slot(last.name).last_used = now
    /\ last.name \notin locks
    /\ \E i \in Idx : slots[i].keep_warm /\ slots[i].state = "warm" /\ Unlocked(i)

Eligible(i) ==
    /\ slots[i].state \in {"warm", "cooling"}
    /\ Unlocked(i)
    /\ ~slots[i].keep_warm
    /\ now - slots[i].last_used > IDLE_TIMEOUT_SECONDS

\* C7: the idle sweep turns Cold exactly the slots that are Warm or Cooling,
\* unlocked, not kept warm and idle for more than the timeout; it changes
\* nothing else of the slot table and nothing of the Lock Set.
C7_SweepExact ==
    [][SweepStep =>
        /\ Len(slots') = Len(slots)
        /\ locks' = locks
        /\ \A i \in Idx :
              slots'[i] = IF Eligible(i) THEN [slots[i] EXCEPT !.state = "cold"]
                          ELSE slots[i]]_vars

\* a sweep has run that left a pinned idle slot resident and found an
\* unpinned one idle for too long
C7_Witness ==
    /\ last.op = "sweep"
    /\ \E i \in Idx :
          /\ slots[i].state = "cold" /\ ~slots[i].keep_warm
          /\ now - slots[i].last_used > IDLE_TIMEOUT_SECONDS
    /\ \E j \in Idx :
          /\ slots[j].state = "warm" /\ slots[j].keep_warm /\ Unlocked(j)
          /\ now - slots[j].last_used > IDLE_TIMEOUT_SECONDS

Released(i) ==
    slots[i].state = "cooling" /\ Unlocked(i) /\ ~slots[i].keep_warm

\* C8 as stated: a sweep leaves a released, unpinned slot Cooling while less
\* than the timeout has passed since the release and turns it Cold once the
\* time passed is greater than or equal to the timeout.
C8_Original ==
    [][SweepStep =>
        \A i \in Idx : Released(i) =>
            slots'[i].state =
                IF now - slots[i].last_used >= IDLE_TIMEOUT_SECONDS
                THEN "cold" ELSE "cooling"]_vars

\* C8 amended: a sweep leaves a released, unpinned slot Cooling while the
\* time passed since the release is at most the timeout (also when it is
\* exactly the timeout) and turns it Cold once it is greater.
C8_SweepAfterRelease ==
    [][SweepStep =>
        \A i \in Idx : Released(i) =>
            slots'[i].state =
                IF now - slots[i].last_used > IDLE_TIMEOUT_SECONDS
                THEN "cold" ELSE "cooling"]_vars

\* a sweep has run exactly one timeout after a release and the slot is
\* still Cooling
C8_Witness ==
    /\ last.op = "sweep"
    /\ \E i \in Idx :
          /\ Released(i)
          /\ now - slots[i].last_used = IDLE_TIMEOUT_SECONDS

\* what get_status shows of a collapsed orchestrator
Collapsed ==
    /\ ~get_status.worker_alive
    /\ get_status.active_models = {}
    /\ get_status.active_locks = {}
    /\ \A i \in Idx : slots[i].state = "cold"

CollapseCall == \E f \in BOOLEAN : CollapseBegin(f)

CollapseReturn == cpc' = "idle" /\ last'.op = "collapse" /\ (CollapseJoin \/ CollapseCall)

\* C9: when collapse_to_zero returns, get_status reports no live worker, no
\* active model and no lock, and every slot is Cold; a call made in such a
\* state (a second call in a row, or a call on a fresh orchestrator) returns
\* at once and leaves get_status, the slot table, the Lock Set and the
\* worker handle unchanged.
C9_CollapseIdempotent ==
    [][/\ CollapseReturn => Collapsed'
       /\ (Collapsed /\ CollapseCall)
            => /\ cpc' = "idle"
               /\ get_status' = get_status
               /\ <<slots, locks, worker, wstate>>' = <<slots, locks, worker, wstate>>]_vars

\* collapse_to_zero has joined a live worker and returned, with slots in
\* the table, one of them requested with keep_warm
C9_Witness ==
    /\ last.op = "collapse" /\ last.ret \in {"joined", "terminated"}
    /\ Collapsed
    /\ \E i \in Idx : slots[i].keep_warm

\* C10: collapse_to_zero terminates: a call that finds no live worker
\* returns in the same step, and a call that joins the worker returns
\* whatever the worker does (idle, mid-task, unresponsive, dead meanwhile),
\* also while a generate_text call is waiting for its result.
C10_CollapseTerminates ==
    /\ (cpc = "join") ~> (cpc = "idle")
    /\ [][(CollapseCall /\ ~(worker /\ is_alive)) => cpc' = "idle"]_vars

\* collapse_to_zero has returned while a generate_text call was in flight
\* and the worker had not taken the poison pill
C10_Witness ==
    /\ last.op = "collapse" /\ last.ret = "terminated"
    /\ cpc = "idle"
    /\ \E h \in Handlers : pc[h].at = "wait"
    /\ taskq # <<>>
    /\ taskq[Len(taskq)].type = "poison_pill"

\* the generate_text call of connection h returns in this step
GenerateReturns(h) == pc[h].at = "wait" /\ pc'[h].at = "idle"

\* C11 as stated: every generate_text call that enqueued a task returns the
\* result the worker produced for that task, also when two connections call
\* generate_text at the same time.
C11_OwnResult ==
    [][\A h \in Connections :
          GenerateReturns(h) => last'.task = pc[h].task]_vars

\* numbers of the tasks (poison pills left out) in a queue, in queue order
RECURSIVE TaskIds(_)
TaskIds(q) ==
    IF q = <<>> THEN <<>>
    ELSE IF Head(q).type = "poison_pill" THEN TaskIds(Tail(q))
    ELSE <<Head(q).id>> \o TaskIds(Tail(q))

Increasing(q) == \A i, j \in 1..Len(q) : i < j => q[i] < q[j]

\* results waiting, then the task being served, then the tasks waiting:
\* all in the order of submission
InSubmissionOrder ==
    Increasing([i \in 1..Len(resultq) |-> resultq[i].task]
               \o (IF wstate = "busy" THEN <<wtask.id>> ELSE <<>>)
               \o TaskIds(taskq))

\* C12: the worker takes the oldest task of the task queue, only when it is
\* not serving one; when it is done with a task (back at the queue, or
\* leaving its loop) it has put exactly one message, for that task, on the
\* result queue, and nothing else puts results; so results are on the
\* result queue in the order their tasks were submitted.
C12_WorkerServesInOrder ==
    /\ []InSubmissionOrder
    /\ [][/\ Len(taskq') < Len(taskq)
              => (wstate = "get" /\ wtask' = Head(taskq) /\ taskq' = Tail(taskq))
          /\ (wstate = "busy" /\ wstate' \in {"get", "exiting"})
              => (\E k \in Outcomes(wtask) \cup {"fatal"} :
                     resultq' = Append(resultq, Result(k, wtask)))
          /\ Len(resultq') > Len(resultq)
              => (wstate = "busy" /\ wstate' \in {"get", "exiting"})]_vars

\* two tasks of different types were served one after the other and both
\* results wait on the result queue
C12_Witness ==
    /\ Len(resultq) = 2
    /\ resultq[1].task < resultq[2].task
    /\ resultq[1].kind # resultq[2].kind
    /\ wstate = "get"

\* the process is alive and reads the task queue
Serving(st) == st \in {"get", "busy"}

\* C13 as stated: at every moment at most one worker process spawned by the
\* orchestrator is alive and reading the task queue, also when two
\* connections call generate_text while there is no worker, and after a
\* collapse_to_zero that terminated the previous worker.
C13_AtMostOneWorker ==
    ~(Serving(wstate) /\ Serving(orphan.state))

\* what get_status shows of a fresh orchestrator
Fresh ==
    /\ ~get_status.worker_alive
    /\ get_status.active_models = {}

\* the step is a call of generate_text by a connection
GenerateCall ==
    \E h \in Handlers :
        \/ GenerateSpawnFails(h)
        \/ \E m \in Modes : GenerateBegin(h, m) \/ GenerateDenied(h, m)

\* C14: a fresh orchestrator reports no live worker and no active model,
\* and the worker is started lazily: a step that starts a worker process,
\* or that assigns the worker handle, is a call of generate_text, never the
\* construction, request_model, release_lock, check_idle_models, get_status
\* or collapse_to_zero.
C14_LazySpawn ==
    /\ Fresh
    /\ [][((~is_alive /\ is_alive') \/ (~worker /\ worker')) => GenerateCall]_vars

\* models were requested and released and the table was swept without any
\* worker; the generate_text call that followed has spawned it
C14_Witness ==
    /\ \E i \in Idx : slots[i].state = "cold"
    /\ \E i \in Idx : slots[i].state = "warm"
    /\ last.op = "release"
    /\ nextTask = 2
    /\ pc["h1"].at = "wait"
    /\ worker /\ wstate = "get"

\* collapse_to_zero has terminated a worker that was serving a task, and no
\* call has returned since
TerminatedMidTask ==
    last.op = "collapse" /\ last.ret = "terminated" /\ last.task # 0

\* C15 as stated: after collapse_to_zero has terminated a worker that was
\* serving a task, the worker spawned by the next generate_text call takes
\* no poison pill left on the task queue by the collapse, and that call
\* returns the result of its own task.
C15_CleanRespawn ==
    [][(TerminatedMidTask /\ cpc = "idle")
         => /\ Len(taskq') < Len(taskq) => Head(taskq).type # "poison_pill"
            /\ \A h \in Connections :
                  GenerateReturns(h) => last'.task = pc[h].task]_vars

\* connection h calls generate_text in this step and enqueues a task
GenerateEnqueues(h) == pc[h].at = "idle" /\ pc'[h].at = "wait"

\* C16 as stated: once a generate_text call has returned the terminal error
\* of a worker whose model load failed, the next generate_text call,
\* whenever it is made, finds the worker dead and runs on a newly spawned
\* worker.
C16_RespawnAfterFatal ==
    [][(/\ last.op = "generate" /\ last.ret = "fatal"
        /\ \E h \in Handlers : GenerateEnqueues(h))
       => (~(worker /\ is_alive) /\ wstate' = "get")]_vars

\* the worker process has died with the task of connection h in flight and
\* no result on the result queue
DiedInFlight(h) ==
    pc[h].at = "wait" /\ wstate = "exited" /\ resultq = <<>>

\* C17 as stated: when the worker process dies while the task of a
\* generate_text call is in flight and no result was posted, the connection
\* handler that made the call eventually stops waiting.
C17_HandlerStopsWaiting ==
    \A h \in Handlers : DiedInFlight(h) ~> (pc[h].at = "idle")

\* run() leaves its loop on a failure while it serves a task
FailsOut == wstate = "busy" /\ wstate' = "exiting"

\* C18 as stated: a failure while a task is served ends the worker only when
\* it is the failure of the first model load of the process; a load that
\* fails for a later task (another model path, a batch, a reload) is
\* answered with an error result and the worker goes on.
C18_OnlyStartupLoadIsFatal ==
    [][FailsOut => wmodel = "none"]_vars

\* C19 as stated: when the spawn of the worker fails inside generate_text,
\* the call returns an error result (it does not raise) and the worker
\* handle is left empty.
C19_SpawnFailureIsAnError ==
    [][(\E h \in Handlers : GenerateSpawnFails(h))
          => (last'.ret = "error" /\ ~worker')]_vars

\* the last task the worker process took is a poison pill
Pilled == wtask.type = "poison_pill"

\* C20: a worker that has taken a poison pill has left its loop: as long as
\* it is the worker, no task is taken from the task queue (a status probe
\* put after the pill stays there) and no message is put on the result
\* queue; the process ends by itself, and a collapse_to_zero call that
\* follows returns with worker_alive false.
C20_NothingAfterPoisonPill ==
    /\ [](Pilled => wstate \in {"exiting", "exited"})
    /\ [][Pilled => /\ Len(taskq') >= Len(taskq)
                    /\ Len(resultq') <= Len(resultq)
                    /\ CollapseReturn => ~get_status'.worker_alive]_vars
    /\ (Pilled /\ wstate = "exiting") ~> (wstate # "exiting")
    /\ (Pilled /\ cpc = "join") ~> (cpc = "idle" /\ ~get_status.worker_alive)

\* the worker has taken a poison pill, a status probe put after it is
\* still on the task queue, and collapse_to_zero has returned
C20_Witness ==
    /\ Pilled /\ wstate = "exited"
    /\ \E i \in 1..Len(taskq) : taskq[i].type = "status"
    /\ resultq = <<>>
    /\ last.op = "collapse" /\ cpc = "idle"
    /\ ~get_status.worker_alive

\* a request_model call has set its slot Warm and not yet taken the lock
HalfRequested(h) ==
    /\ rq[h].at = "lock"
    /\ HasSlot(rq[h].name)
    /\ Slot(rq[h].name).state = "warm"
    /\ rq[h].name \notin locks

\* no request_model or release_lock call is in progress
Quiescent == \A h \in Connections : rq[h].at = "idle"

\* once every call has returned, no name of the Lock Set has a Cold slot
NoColdLockAtRest ==
    Quiescent => \A n \in locks : HasSlot(n) /\ Slot(n).state # "cold"

\* C21 as stated: with request_model, release_lock, check_idle_models and
\* collapse_to_zero called from several connection threads, no reachable
\* state shows a slot a request in progress has set Warm while its name
\* is missing from the Lock Set, and once every call has returned no name of
\* the Lock Set has a Cold slot.
C21_AtomicUpdates ==
    /\ \A h \in Connections : ~HalfRequested(h)
    /\ NoColdLockAtRest

StatusStep == last'.op = "status" /\ Status

Entry(i) == [name |-> slots[i].name, state |-> slots[i].state,
             memory_mb |-> memory_mb(slots[i].name)]

\* C22: get_status leaves the slot table, the Lock Set, the worker handle,
\* the worker process and both queues as they were, and its snapshot lists
\* exactly the slots that are not Cold with name, state and memory estimate,
\* exactly the locked names, the limit in use, the tier of the current key
\* and whether a live worker is attached.
C22_StatusReadOnly ==
    [][StatusStep =>
        /\ UNCHANGED <<slots, locks, maxConcurrent, worker, wstate, wtask,
                       taskq, resultq>>
        /\ \A i \in Idx :
              (Entry(i) \in snapshot'.active_models) <=> (slots[i].state # "cold")
        /\ Cardinality(snapshot'.active_models) = Cardinality(Resident)
        /\ snapshot'.active_locks = locks
        /\ snapshot'.max_concurrent = maxConcurrent
        /\ snapshot'.license_tier = validate_key_format(key)
        /\ snapshot'.worker_alive = (worker /\ wstate \notin {"none", "exited"})
    ]_vars

\* get_status has just returned on a table with a Cold slot, a resident
\* locked slot, a live worker and a task waiting on the task queue
C22_Witness ==
    /\ last.op = "status"
    /\ \E i \in Idx : slots[i].state = "cold"
    /\ snapshot.active_models # {}
    /\ snapshot.active_locks # {}
    /\ snapshot.worker_alive
    /\ taskq # <<>>

\* the limit and the tier of a snapshot agree: 1 on the free tier, more on
\* the paid ones
SnapshotAgrees ==
    \/ snapshot.license_tier = "ronin" /\ snapshot.max_concurrent = 1
    \/ snapshot.license_tier \in {"architect", "showrunner"}
          /\ snapshot.max_concurrent > 1

\* C23 as stated: the limit get_status reports is the one of the tier it
\* reports, and every request_model call admits under the limit of the
\* licence key in force at the call, also after the key has changed since
\* the orchestrator was constructed.
C23_LimitFollowsTier ==
    /\ [](last.op = "status" => SnapshotAgrees)
    /\ [][RequestStep =>
            slots' = request_slots(slots, locks, last'.name, last'.kw, now,
                                   key, update_limits(key))]_vars

\* the slot of n is resident, unlocked, unpinned and idle past the timeout
Overdue(n) ==
    /\ HasSlot(n)
    /\ Slot(n).state \in {"warm", "cooling"}
    /\ n \notin locks
    /\ ~Slot(n).keep_warm
    /\ now - Slot(n).last_used > IDLE_TIMEOUT_SECONDS

\* C24 as stated: a slot that is unlocked, unpinned and idle for longer than
\* the idle timeout eventually becomes Cold (or is used again), also when no
\* caller calls the orchestrator any more.
C24_AutoPurge ==
    \A n \in CoreNames : Overdue(n) ~> ~Overdue(n)

TierOfKey(k) ==
    CASE Len(k) >= 3 /\ k[1] = "HRTH" /\ k[2] = "ARCHITECT" -> "architect"
      [] Len(k) >= 3 /\ k[1] = "HRTH" /\ k[2] = "SHOWRUNNER" -> "showrunner"
      [] OTHER -> "ronin"

GetTierStep == last'.op = "get_tier" /\ GetTier

\* C26: get_tier returns Ronin for an empty or unrecognised key, Architect
\* and Showrunner for a key with their prefix, and whatever keys were set
\* and looked up before, the tier a call returns (and the tier the cache
\* would answer with) is the tier of the key set at the call.
C26_TierOfCurrentKey ==
    /\ [][GetTierStep => last'.ret = TierOfKey(key)]_vars
    /\ [](cache_hit(key, cached_tier, key_hash) => cached_tier = TierOfKey(key))

\* get_tier was called with the Architect tier in its cache after the key
\* had been replaced by an unrecognised one, and returned Ronin
C26_Witness ==
    /\ last.op = "get_tier"
    /\ last.name = "architect"
    /\ key = <<"HRTH", "RONIN", "k">>
    /\ last.ret = "ronin"

KeyOfTier(t) ==
    CASE t = "ronin" -> <<>>
      [] t = "architect" -> <<"HRTH", "ARCHITECT", "k">>
      [] t = "showrunner" -> <<"HRTH", "SHOWRUNNER", "k">>

\* a decision function allows on a higher tier what it allows on a lower one
Monotone(allowed(_, _)) ==
    \A f \in Features :
        /\ allowed(KeyOfTier("ronin"), f) => allowed(KeyOfTier("architect"), f)
        /\ allowed(KeyOfTier("architect"), f) => allowed(KeyOfTier("showrunner"), f)

\* C27 as stated: whatever feature is checked under whatever tier,
\* app.check_feature_access, LicenseValidator.can_access and
\* context_engine.check_pro_feature give the same decision, and each of them
\* allows on a higher tier every feature it allows on a lower one.
C27_ConsistentEnforcement ==
    /\ last.op = "check" =>
          /\ decision.app = decision.validator
          /\ decision.validator = decision.engine
    /\ Monotone(app_check_feature_access)
    /\ Monotone(can_access_feature)
    /\ Monotone(check_pro_feature)

\* the step is a synthesize call of the text and voice of the call before it
SameAgain ==
    /\ vret.ret = "path"
    /\ \E text \in Texts, voice \in Voices :
          /\ generate_cache_key(text, voice) = vret.path
          /\ Synthesize(text, voice)

\* C28 as stated: synthesize never raises and returns the path of a file
\* that exists, in every state of the cache directory, also on a miss that
\* finds more than MAX_CACHE_FILES files; called again with the same text
\* and voice it returns the same path from the cache.
C28_SynthesizeReturns ==
    /\ [](vret.ret # "raised")
    /\ [](vret.ret = "path" => vret.path \in Cached(vcache))
    /\ [][SameAgain => vret'.ret = "path" /\ vret'.path = vret.path /\ vret'.hit]_vars

\* C29 as stated: a slot that is Cold stays Cold under every call but
\* request_model of its name, release_lock included, and release_lock sets
\* a slot Cooling only from Warm or Hot.
C29_ColdLeftOnlyByRequest ==
    /\ [][\A i \in Idx :
            (slots[i].state = "cold" /\ slots'[i].state # "cold")
            => (RequestStep /\ last'.name = slots[i].name)]_vars
    /\ [][ReleaseStep =>
            \A i \in Idx :
                (slots'[i].state = "cooling" /\ slots[i].state # "cooling")
                => slots[i].state \in {"warm", "hot"}]_vars

\* the slot is resident, released and was last requested with keep_warm
PinnedReleased(i) ==
    /\ slots[i].keep_warm
    /\ Unlocked(i)
    /\ slots[i].state # "cold"

\* C30 as stated: request_model never turns Cold a slot that was requested
\* with keep_warm=True and has been released since: the eviction takes its
\* victim among the slots that are unlocked and not kept warm.
C30_PinnedNeverEvicted ==
    [][RequestStep =>
        \A i \in Idx :
            (PinnedReleased(i) /\ slots[i].name # last'.name)
            => slots'[i].state # "cold"]_vars

\* a generate_text call has put its task and has not received the result
InFlight == \E h \in Connections : pc[h].at = "wait"

\* the model the worker generates with
GenerationModel == "mistral-7b-quantized"

\* C31 as stated: while a generation task is in flight the slot of the
\* generation model, requested and held by the caller, is Hot, and no slot
\* is Hot at any other time.
C31_HotWhileInFlight ==
    /\ (InFlight /\ GenerationModel \in locks) => Slot(GenerationModel).state = "hot"
    /\ ~InFlight => \A i \in Idx : slots[i].state # "hot"

\* the number of times a path occurs in a list of loads
Occurrences(log, path) == Cardinality({ i \in 1..Len(log) : log[i] = path })

\* the step serves a generate task; last'.ret is the task's model path
ServeStep == last'.op = "serve"

\* the step serves a generate task whose path is the model already active
ServesActive == ServeStep /\ last'.ret = wmodel

\* C32 as stated (refuted by the tasks A, B, A): between two reload_model tasks one worker instance loads
\* each model path at most once, also when its generate tasks alternate
\* between two paths, and a task for the active path loads nothing.
C32_LoadedOncePerPath ==
    /\ [](\A path \in ModelPaths : Occurrences(loadLog, path) <= 1)
    /\ [][ServesActive => loadLog' = loadLog]_vars

\* C32 amended: the worker keeps one model.  A generate task loads its path
\* exactly when the path is not the active one, so a task for the active path
\* loads nothing, no path is loaded twice in a row, and the active model is
\* the last one loaded; a path that was displaced is loaded again.
C32_LoadsOnPathChange ==
    /\ [][ServesActive => loadLog' = loadLog]_vars
    /\ [][(ServeStep /\ last'.ret # wmodel)
            => loadLog' = Append(loadLog, last'.ret)]_vars
    /\ [](\A i \in 1..Len(loadLog) - 1 : loadLog[i] # loadLog[i + 1])
    /\ [](loadLog # <<>> => wmodel = loadLog[Len(loadLog)])

\* tasks alternating between two paths have been served, one of them for the
\* path that was active
C32_Witness ==
    /\ Len(loadLog) >= 3
    /\ loadLog[1] = loadLog[3]
    /\ served > Len(loadLog)
    /\ last.op = "serve"

\* the composed prompt holds the privileged block
HasShadowBlock(parts) ==
    \E i \in 1..Len(parts) : parts[i][1] = "[SHADOW NODES - OPEN LOOPS]"

\* the step is a generate_text call that built a task; last'.kw is what the
\* caller passed as use_shadow_nodes
BuildStep == last'.op = "build" /\ last'.ret = "ok"

\* C33: the task's flag is set only if the caller asked for shadow nodes and
\* the tier of the current key allows the feature; the prompt the worker
\* composes holds the privileged block only if the flag is set; and with the
\* flag unset the prompt is the same whatever the task's shadow node text is.
C33_ShadowNodesGated ==
    /\ [][(BuildStep /\ ptask'.use_shadow_nodes)
            => (last'.kw /\ TierOfKey(key) \in {"architect", "showrunner"})]_vars
    /\ []((pprompt # <<>> /\ HasShadowBlock(pprompt)) => ptask.use_shadow_nodes)
    /\ []((pprompt # <<>> /\ ~ptask.use_shadow_nodes)
            => \A payload \in Payloads :
                   full_prompt([ptask EXCEPT !.shadow_nodes = payload]) = pprompt)

\* a task carrying shadow node text was built on the free tier and composed
C33_Witness ==
    /\ pprompt # <<>>
    /\ ptask.shadow_nodes # ""
    /\ ~ptask.use_shadow_nodes
    /\ TierOfKey(key) = "ronin"

\* every slot of the table is still there after the step, at its place, with
\* the name and the memory estimate it had
SlotsKept ==
    /\ Len(slots') >= Len(slots)
    /\ \A i \in Idx : /\ slots'[i].name = slots[i].name
                      /\ slots'[i].memory_mb = slots[i].memory_mb

\* the step changes the last_used of a slot it found in the table
LastUsedChanged == \E i \in Idx : slots'[i].last_used # slots[i].last_used

\* C34: no step removes a slot (collapse_to_zero and the admission eviction
\* included) or changes its name or memory estimate, no name ever has two
\* slots, and last_used is changed by request_model and release_lock only
\* (the sweep, the eviction, collapse_to_zero and generate_text leave it)
\* and never decreases.
C34_SlotTableFrame ==
    /\ [][SlotsKept]_vars
    /\ [](\A i, j \in Idx : slots[i].name = slots[j].name => i = j)
    /\ [][LastUsedChanged => (RequestStep \/ ReleaseStep)]_vars
    /\ [][\A i \in Idx : slots'[i].last_used >= slots[i].last_used]_vars

\* both slots exist and went Cold (by eviction, sweep or collapse) after
\* time had passed since their last use, and one was requested again
C34_Witness ==
    /\ Len(slots) = 2
    /\ now > 0
    /\ \E i, j \in Idx : /\ slots[i].state = "cold"
                         /\ slots[i].last_used = 0
                         /\ slots[j].state # "cold"
                         /\ slots[j].last_used > 0
    /\ last.op \in {"sweep", "collapse", "generate"}

\* the slot of the name exists and is not Cold
IsResident(n) == HasSlot(n) /\ Slot(n).state # "cold"

\* C35: on the free tier, with every request released before the next one is
\* made, the embedding model and the generation model are never both
\* resident when request_model has returned, although the generation model
\* is requested with keep_warm = True.
C35_OneResidentOnBaseTier ==
    (TierOfKey(key) = "ronin" /\ last.op = "request")
        => ~(IsResident(EmbeddingModel) /\ IsResident(GenerationModel))

\* the embedding model has just been requested on the free tier and the
\* pinned generation model, which was resident, is Cold
C35_Witness ==
    /\ TierOfKey(key) = "ronin"
    /\ last.op = "request"
    /\ last.name = EmbeddingModel
    /\ HasSlot(GenerationModel)
    /\ Slot(GenerationModel).keep_warm
    /\ Slot(GenerationModel).state = "cold"
    /\ Slot(GenerationModel).last_used > 0

\* the orchestrators in use: the ones get_orchestrator has returned to a
\* connection, the global, and the one rag_engine holds
InUse ==
    ({ gpc[h].got : h \in Connections } \cup {app_orchestrator, rag_orchestrator})
        \ {0}

\* C36 as stated: no orchestrator exists before the first get_orchestrator
\* call, at most one is ever constructed, also when the first calls of two
\* connections overlap, and no component uses another one.
C36_SingleOrchestrator ==
    /\ Len(orchs) <= 1
    /\ Cardinality(InUse) <= 1
    /\ (orchs # <<>> => app_orchestrator # 0)

\* a key of a paid tier, and a session of the free tier
PaidKey == <<"HRTH", "SHOWRUNNER", "k">>
RoninSession == app_get_license_tier(key) = "ronin"

\* the text is a command that sets a gated mode or feature when the licence
\* allows everything
GatedCommand(text) ==
    LET r == parse_intent(text, PaidKey)
    IN  \/ r.intent = "switch_mode" /\ r.meta \in {"comic", "game"}
        \/ r.intent = "toggle_feature"
              /\ r.meta \in {"shadow_nodes", "visual_tracking"}

ReceiveStep == last'.op = "receive"

\* C37: in a session of the free tier the mode is never comic or game and
\* neither shadow nodes nor visual tracking is ever enabled; every command
\* that would set one of them is answered with the denial, leaves the
\* session's state as it was and calls no generation.
C37_RoninSessionGated ==
    /\ [](RoninSession => /\ current_mode \notin {"comic", "game"}
                          /\ ~shadow_nodes_enabled
                          /\ ~visual_tracking_enabled)
    /\ [][(ReceiveStep /\ RoninSession /\ GatedCommand(sreply'.text))
            => /\ sreply'.event = "feature_locked"
               /\ sreply'.call = "none"
               /\ UNCHANGED <<current_mode, shadow_nodes_enabled,
                              visual_tracking_enabled>>]_vars

\* a free-tier session that had switched to screenplay was sent "switch to
\* comic" and answered with the denial
C37_Witness ==
    /\ RoninSession
    /\ current_mode = "screenplay"
    /\ sreply.text = Text(TRUE, {"switch to", "comic"}, "none")
    /\ sreply.event = "feature_locked"

\* the step is connection h giving back the handle it held
Relinquishes(h) ==
    last'.op = "release" /\ last'.ret = h /\ holds[h] # "" /\ holds'[h] = ""

\* the step is a connection taking a handle of last'.name
Acquires == last'.op = "request" /\ holds' # holds

\* C38: the Lock Set holds a name or not, it does not count holders.  A
\* single release of a model takes the name out of the Lock Set and, when
\* the slot is not pinned, leaves it Cooling, whether or not another
\* connection still holds a handle of the model; and the pinned flag of a
\* slot is the one given with the latest request for it.
C38_LockIsFlag ==
    /\ [][\A h \in Connections :
            Relinquishes(h)
                => /\ holds[h] \notin locks'
                   /\ ~Slot(holds[h]).keep_warm
                        => SlotOf(slots', holds[h]).state = "cooling"
                   /\ Slot(holds[h]).keep_warm
                        => SlotOf(slots', holds[h]).state = Slot(holds[h]).state]_vars
    /\ [][Acquires => SlotOf(slots', last'.name).keep_warm = last'.kw]_vars
    /\ [][\A i \in Idx :
            slots'[i].keep_warm # slots[i].keep_warm
                => (Acquires /\ last'.name = slots[i].name)]_vars

\* both connections requested the same model and one released it: the other
\* still holds its handle while the name is unlocked and the slot, Cooling
\* since the release, has gone Cold
C38_Witness ==
    \E h \in Connections :
        /\ holds[h] # ""
        /\ \A g \in Connections \ {h} : holds[g] = ""
        /\ holds[h] \notin locks
        /\ Slot(holds[h]).state = "cold"
        /\ ~Slot(holds[h]).keep_warm
        /\ Len(slots) = 1

\* C39 as stated: the loops of the idle sweep and of get_status never fail,
\* also when the request of another handler puts the slot of a new name
\* into the table while they run.
C39_LoopsNeverFail == \A h \in Connections : iter[h].ret # "raised"

\* the queues, the worker process and the model it has loaded
WorkerSide == <<taskq, resultq, worker, wstate, wtask, wmodel>>

====
